---- MODULE Spec2Model ----
(***************************************************************************)
(* bootimgtool (src/bootimgtool/bootimgtool.cpp): the "unpack" and "pack"  *)
(* subcommands, which exchange the fields and blobs of a boot image with   *)
(* a directory of item files.                                              *)
(*                                                                         *)
(* Strings are TLA+ strings (Len, SubSeq and \o apply to them).  A         *)
(* uint32_t is a pair <<hi, lo>> of 16-bit halves, because the model       *)
(* checker's integers are 32-bit signed: every operation on such a pair is *)
(* exact modulo 2^32.                                                      *)
(***************************************************************************)
EXTENDS Integers, Sequences, FiniteSets, TLC

\* ------------------------------------------------------------------------
\* Characters and strings
\* ------------------------------------------------------------------------

Ch(s, i) == SubSeq(s, i, i)

Min(a, b) == IF a < b THEN a ELSE b

StartsWith(s, p) == Len(s) >= Len(p) /\ SubSeq(s, 1, Len(p)) = p

\* Index of the first occurrence of character c in s at or after i; 0 if none.
IndexFrom(s, c, i) ==
    LET I == {j \in i..Len(s) : Ch(s, j) = c}
    IN  IF I = {} THEN 0 ELSE CHOOSE j \in I : \A m \in I : j <= m

\* Index of the last occurrence of character c in s; 0 if none.
RECURSIVE LastIndex(_, _, _)
LastIndex(s, c, i) ==
    IF i < 1 THEN 0
    ELSE IF Ch(s, i) = c THEN i
    ELSE LastIndex(s, c, i - 1)

IsSpace(c) == c \in {" ", "\n", "\t", "\r"}

RECURSIVE SkipSpace(_, _)
SkipSpace(s, i) ==
    IF i <= Len(s) /\ IsSpace(Ch(s, i)) THEN SkipSpace(s, i + 1) ELSE i

LowerDigits == "0123456789abcdef"
UpperDigits == "0123456789ABCDEF"

\* Value of a digit character, or 99 when c is no digit of any base up to 16.
DigitVal(c) ==
    IF \E k \in 1..16 : Ch(LowerDigits, k) = c
    THEN (CHOOSE k \in 1..16 : Ch(LowerDigits, k) = c) - 1
    ELSE IF \E k \in 11..16 : Ch(UpperDigits, k) = c
    THEN (CHOOSE k \in 11..16 : Ch(UpperDigits, k) = c) - 1
    ELSE 99

\* ------------------------------------------------------------------------
\* uint32_t as <<hi, lo>>, and wider numbers as little-endian 16-bit limbs
\* ------------------------------------------------------------------------

Limb == 256 * 256

U32(hi, lo) == <<hi, lo>>

U32Zero == <<0, 0>>

\* The value of a local uint32_t that has not been assigned.
Uninit == <<-1, -1>>

\* a + b modulo 2^32
U32Add(a, b) ==
    LET lo == a[2] + b[2]
        hi == a[1] + b[1] + (lo \div Limb)
    IN  <<hi % Limb, lo % Limb>>

\* a - b modulo 2^32
U32Sub(a, b) ==
    LET lo == a[2] - b[2]
        borrow == IF lo < 0 THEN 1 ELSE 0
        hi == a[1] - b[1] - borrow
    IN  <<(hi + Limb) % Limb, (lo + Limb) % Limb>>

\* 0 - a modulo 2^32
U32Neg(a) == U32Sub(U32Zero, a)

\* printf("%04x") of one 16-bit half
Hex4(n) ==
    Ch(LowerDigits, (n \div 4096) + 1) \o Ch(LowerDigits, ((n \div 256) % 16) + 1)
        \o Ch(LowerDigits, ((n \div 16) % 16) + 1) \o Ch(LowerDigits, (n % 16) + 1)

\* printf("%08x", u)
Hex8(u) == Hex4(u[1]) \o Hex4(u[2])

\* printf("%u", u): decimal digits by repeated division of <<hi, lo>> by ten.
RECURSIVE DecDigits(_)
DecDigits(u) ==
    LET qh  == u[1] \div 10
        mid == (u[1] % 10) * Limb + u[2]
        ql  == mid \div 10
        r   == mid % 10
        \* ql may exceed one limb: carry it into the high half
        q   == <<qh + (ql \div Limb), ql % Limb>>
    IN  IF q = U32Zero THEN Ch(LowerDigits, r + 1)
        ELSE DecDigits(q) \o Ch(LowerDigits, r + 1)

Dec(u) == DecDigits(u)

\* A number of NLimbs 16-bit limbs, least significant first: wide enough to
\* tell a value above 2^64 - 1 from one below, for every literal of the model.
NLimbs == 6

WideZero == [k \in 1..NLimbs |-> 0]

\* w * m + d on limbs, m <= 16 and d < 16; the carry out of the top limb is
\* kept in the top limb (it only ever marks "too large").
RECURSIVE MulAddFrom(_, _, _, _)
MulAddFrom(w, m, carry, k) ==
    IF k > NLimbs THEN w
    ELSE LET t == w[k] * m + carry
         IN  IF k = NLimbs
             THEN [w EXCEPT ![k] = Min(t, Limb - 1)]
             ELSE MulAddFrom([w EXCEPT ![k] = t % Limb], m, t \div Limb, k + 1)

MulAdd(w, m, d) == MulAddFrom(w, m, d, 1)

\* The low 32 bits of a wide number.
WideLow32(w) == <<w[2], w[1]>>

\* Does the wide number exceed `bits` bits (bits is 32 or 64)?
WideExceeds(w, bits) ==
    \E k \in ((bits \div 16) + 1)..NLimbs : w[k] # 0

\* Digits of `base` in s from index i up to index limit: the accumulated wide
\* value, the number of digits taken and the index after the last one.  (The
\* test of acc, always true, makes TLC evaluate acc before the next digit.)
RECURSIVE ScanDigits(_, _, _, _, _, _)
ScanDigits(s, i, limit, base, acc, n) ==
    IF i <= limit /\ DigitVal(Ch(s, i)) < base /\ acc[NLimbs] >= 0
    THEN ScanDigits(s, i + 1, limit, base, MulAdd(acc, base, DigitVal(Ch(s, i))), n + 1)
    ELSE [v |-> acc, n |-> n, next |-> i]

\* ------------------------------------------------------------------------
\* The C library calls the tool makes on item text
\* ------------------------------------------------------------------------

\* fscanf(fp, "%08x", &v) (width 8, base 16) and fscanf(fp, "%u", &v) (width 0
\* = unlimited, base 10) on a stream holding `data`: leading white space is
\* skipped, then an optional sign, an optional 0x (base 16) and digits are
\* taken, at most `width` characters in all.  count is EOF (-1) when the input
\* ends before any character is matched, 0 on a matching failure, else 1 with
\* the value converted to unsigned int.
ScanfUInt(data, width, base) ==
    LET i0     == SkipSpace(data, 1)
        limit  == IF width = 0 THEN Len(data) ELSE Min(Len(data), i0 + width - 1)
        signed == i0 <= limit /\ Ch(data, i0) \in {"+", "-"}
        neg    == signed /\ Ch(data, i0) = "-"
        i1     == IF signed THEN i0 + 1 ELSE i0
        pfx    == /\ base = 16
                  /\ i1 + 2 <= limit
                  /\ Ch(data, i1) = "0"
                  /\ Ch(data, i1 + 1) \in {"x", "X"}
                  /\ DigitVal(Ch(data, i1 + 2)) < 16
        i2     == IF pfx THEN i1 + 2 ELSE i1
        r      == ScanDigits(data, i2, limit, base, WideZero, 0)
        v      == WideLow32(r.v)
    IN  IF i0 > Len(data) THEN [count |-> -1, value |-> Uninit]
        ELSE IF r.n = 0 THEN [count |-> 0, value |-> Uninit]
        ELSE [count |-> 1, value |-> IF neg THEN U32Neg(v) ELSE v]

\* FgetsLine with fgets storing size characters instead of size - 1.
FgetsLineWhole(data, size) ==
    LET nl   == IndexFrom(data, "\n", 1)
        line == IF nl = 0 THEN data ELSE SubSeq(data, 1, nl - 1)
    IN  SubSeq(line, 1, Min(Len(line), size))

\* fgets(buf, size, fp) into a zero-filled buffer, then std::string(buf.data())
\* with everything from the first '\n' erased: at most size - 1 characters of
\* the first line.
FgetsLine(data, size) ==
    LET nl   == IndexFrom(data, "\n", 1)
        line == IF nl = 0 THEN data ELSE SubSeq(data, 1, nl - 1)
    IN  SubSeq(line, 1, Min(Len(line), size - 1))

\* str_to_uint32(&out, str, base): strtoul, whose unsigned long has ulbits
\* bits, then the assignment to a uint32_t, which keeps the low 32 bits.
StrToUint32(str, base, ulbits) ==
    LET i0     == SkipSpace(str, 1)
        signed == i0 <= Len(str) /\ Ch(str, i0) \in {"+", "-"}
        neg    == signed /\ Ch(str, i0) = "-"
        i1     == IF signed THEN i0 + 1 ELSE i0
        pfx    == /\ base = 16
                  /\ i1 + 2 <= Len(str)
                  /\ Ch(str, i1) = "0"
                  /\ Ch(str, i1 + 1) \in {"x", "X"}
                  /\ DigitVal(Ch(str, i1 + 2)) < 16
        i2     == IF pfx THEN i1 + 2 ELSE i1
        r      == ScanDigits(str, i2, Len(str), base, WideZero, 0)
        v      == WideLow32(r.v)
    IN  IF r.n > 0 /\ WideExceeds(r.v, ulbits)
        THEN [ok |-> FALSE, value |-> Uninit]                 \* errno == ERANGE
        ELSE IF str = "" \/ r.n = 0 \/ r.next <= Len(str)
        THEN [ok |-> FALSE, value |-> Uninit]                 \* *str or *end
        ELSE [ok |-> TRUE, value |-> IF neg THEN U32Neg(v) ELSE v]

\* ------------------------------------------------------------------------
\* The item schema
\* ------------------------------------------------------------------------

TextKeys == <<"cmdline", "board">>

HexKeys == <<"base", "kernel_offset", "ramdisk_offset", "second_offset",
             "tags_offset", "ipl_address", "rpm_address", "appsbl_address",
             "entrypoint">>

DecKeys == <<"page_size">>

\* The 12 scalar items, in the order both subcommands handle them.
ScalarKeys == TextKeys \o HexKeys \o DecKeys

\* The 9 blobs unpack writes and the 10 blobs pack reads, in order.
UnpackBlobKeys == <<"kernel", "ramdisk", "second", "dt", "ipl", "rpm",
                    "appsbl", "sin", "sinhdr">>

PackBlobKeys == <<"kernel", "ramdisk", "second", "dt", "aboot", "ipl", "rpm",
                  "appsbl", "sin", "sinhdr">>

UnpackKeys == ScalarKeys \o UnpackBlobKeys

PackKeys == ScalarKeys \o PackBlobKeys

Range(q) == {q[i] : i \in 1..Len(q)}

TextSet == Range(TextKeys)
HexSet == Range(HexKeys)
NumSet == Range(HexKeys) \cup Range(DecKeys)
DecKeySet == Range(DecKeys)
ScalarSet == Range(ScalarKeys)
BlobSet == Range(PackBlobKeys)
KeySet == Range(PackKeys)

\* ------------------------------------------------------------------------
\* The codec (libmbp's BootImage) and libmbpio, as far as the tool uses them
\* ------------------------------------------------------------------------

DefaultCmdline == "default cmdline"
DefaultBoard == "default board"
DefaultBase == U32(4096, 0)
DefaultKernelOffset == U32(0, 32768)
DefaultRamdiskOffset == U32(256, 0)
DefaultSecondOffset == U32(240, 0)
DefaultTagsOffset == U32(0, 256)
DefaultIplAddress == U32(0, 0)
DefaultRpmAddress == U32(2, 0)
DefaultAppsblAddress == U32(4, 0)
DefaultEntrypointAddress == U32(0, 0)
DefaultPageSize == U32(0, 2048)
BootArgsSize == 512
BootNameSize == 16

DefaultText(k) == IF k = "cmdline" THEN DefaultCmdline ELSE DefaultBoard

DefaultNum(k) ==
    CASE k = "base"           -> DefaultBase
      [] k = "kernel_offset"  -> DefaultKernelOffset
      [] k = "ramdisk_offset" -> DefaultRamdiskOffset
      [] k = "second_offset"  -> DefaultSecondOffset
      [] k = "tags_offset"    -> DefaultTagsOffset
      [] k = "ipl_address"    -> DefaultIplAddress
      [] k = "rpm_address"    -> DefaultRpmAddress
      [] k = "appsbl_address" -> DefaultAppsblAddress
      [] k = "entrypoint"     -> DefaultEntrypointAddress
      [] k = "page_size"      -> DefaultPageSize

TextSize(k) == IF k = "cmdline" THEN BootArgsSize ELSE BootNameSize

NoBlobs == [k \in BlobSet |-> ""]

\* mbp::BootImage bi;  a fresh image holds the codec's defaults and no blobs.
NewBootImage ==
    [cmdline    |-> DefaultCmdline,
     board      |-> DefaultBoard,
     kernelAddr |-> U32Add(DefaultBase, DefaultKernelOffset),
     ramdiskAddr|-> U32Add(DefaultBase, DefaultRamdiskOffset),
     secondAddr |-> U32Add(DefaultBase, DefaultSecondOffset),
     tagsAddr   |-> U32Add(DefaultBase, DefaultTagsOffset),
     iplAddr    |-> DefaultIplAddress,
     rpmAddr    |-> DefaultRpmAddress,
     appsblAddr |-> DefaultAppsblAddress,
     entrypoint |-> DefaultEntrypointAddress,
     pageSize   |-> DefaultPageSize,
     blob       |-> NoBlobs,
     type       |-> "android"]

\* bi.setAddresses(base, kernelOffset, ramdiskOffset, secondOffset, tagsOffset)
SetAddresses(b, base, ko, ro, so, to) ==
    [b EXCEPT !.kernelAddr  = U32Add(base, ko),
              !.ramdiskAddr = U32Add(base, ro),
              !.secondAddr  = U32Add(base, so),
              !.tagsAddr    = U32Add(base, to)]

\* io::baseName(path): what follows the last '/'.
BaseName(p) == SubSeq(p, LastIndex(p, "/", Len(p)) + 1, Len(p))

\* io::pathJoin({dir, name})
PathJoin(d, name) ==
    IF d # "" /\ Ch(d, Len(d)) = "/" THEN d \o name ELSE d \o "/" \o name

\* ------------------------------------------------------------------------
\* getopt_long, as both subcommands call it
\* ------------------------------------------------------------------------

\* The long_options tables: every entry is declared with required_argument.
\* An option is known by its code: "o", "i", "p", "n", "t" for the entries that
\* share a short option's code, the long name itself for the others.
UnpackLongNames ==
    {"output", "prefix", "noprefix"} \cup {"output-" \o k : k \in Range(UnpackKeys)}

PackLongNames ==
    {"input", "prefix", "noprefix", "type"}
        \cup {"input-" \o k : k \in KeySet}
        \cup {"value-" \o k : k \in ScalarSet}

LongCode(name) ==
    CASE name = "output"   -> "o"
      [] name = "input"    -> "i"
      [] name = "prefix"   -> "p"
      [] name = "noprefix" -> "n"
      [] name = "type"     -> "t"
      [] OTHER             -> name

\* The short option strings "o:p:n" and "i:p:nt:": the options that take an
\* argument and those that take none.
UnpackShortArg == {"o", "p"}
UnpackShortFlag == {"n"}
PackShortArg == {"i", "p", "t"}
PackShortFlag == {"n"}

IsOptionWord(w) == Len(w) >= 2 /\ Ch(w, 1) = "-"

\* Number of leading elements of args that are not options.
RECURSIVE LeadingWords(_, _)
LeadingWords(args, n) ==
    IF n < Len(args) /\ ~IsOptionWord(args[n + 1]) THEN LeadingWords(args, n + 1) ELSE n

\* One call of getopt_long on the unscanned arguments `args`.  Non-options
\* before the next option are set aside (GNU permutation); opt is "-1" at the
\* end of the options and "?" for an unknown or ambiguous option or one that
\* lacks its argument.
GetoptLong(args, shortArg, shortFlag, longNames) ==
    LET nw      == LeadingWords(args, 0)
        skipped == SubSeq(args, 1, nw)
        a       == SubSeq(args, nw + 1, Len(args))
        el      == a[1]
        after   == Tail(a)
        \* --name or --name=value
        eq      == IndexFrom(el, "=", 3)
        name    == IF eq = 0 THEN SubSeq(el, 3, Len(el)) ELSE SubSeq(el, 3, eq - 1)
        cands   == {n \in longNames : StartsWith(n, name)}
        known   == name \in longNames \/ Cardinality(cands) = 1
        full    == IF name \in longNames THEN name ELSE CHOOSE n \in cands : TRUE
        \* -c, -cvalue or -cd...
        c       == Ch(el, 2)
        more    == SubSeq(el, 3, Len(el))
    IN  IF a = <<>>
        THEN [opt |-> "-1", optarg |-> "", rest |-> <<>>, words |-> skipped]
        ELSE IF el = "--"
        THEN [opt |-> "-1", optarg |-> "", rest |-> <<>>, words |-> skipped \o after]
        ELSE IF StartsWith(el, "--")
        THEN IF ~known
             THEN [opt |-> "?", optarg |-> "", rest |-> after, words |-> skipped]
             ELSE IF eq # 0
             THEN [opt |-> LongCode(full), optarg |-> SubSeq(el, eq + 1, Len(el)),
                   rest |-> after, words |-> skipped]
             ELSE IF after # <<>>
             THEN [opt |-> LongCode(full), optarg |-> after[1],
                   rest |-> Tail(after), words |-> skipped]
             ELSE [opt |-> "?", optarg |-> "", rest |-> after, words |-> skipped]
        ELSE IF c \in shortArg
        THEN IF more # ""
             THEN [opt |-> c, optarg |-> more, rest |-> after, words |-> skipped]
             ELSE IF after # <<>>
             THEN [opt |-> c, optarg |-> after[1], rest |-> Tail(after), words |-> skipped]
             ELSE [opt |-> "?", optarg |-> "", rest |-> after, words |-> skipped]
        ELSE [opt    |-> IF c \in shortFlag THEN c ELSE "?",
              optarg |-> "",
              rest   |-> IF more # "" THEN <<"-" \o more>> \o after ELSE after,
              words  |-> skipped]

\* ------------------------------------------------------------------------
\* State
\* ------------------------------------------------------------------------

VARIABLES
    script,     \* the command lines still to run, each without the program name
    status,     \* the exit statuses of the processes that have finished
    pc,         \* "shell" between processes, else the place in the subcommand
    argv,       \* the command line of the running process, without the program name
    cmd,        \* the subcommand of the running process
    rest,       \* argv elements getopt_long has not scanned yet
    words,      \* the non-option argv elements set aside so far
    opt,        \* no_prefix, input_dir/output_dir, prefix, type, image file
    path,       \* path_<item> of every item
    values,     \* the items whose values[OPT_VALUE_<item>] is true
    text,       \* the locals cmdline and board
    num,        \* the uint32_t locals base ... page_size
    blob,       \* the locals kernel_image ... sin_header
    item,       \* index in the schema of the item to read or write next
    bi,         \* the mbp::BootImage object
    fs,         \* the item files that exist: path -> [mode, data]
    images,     \* the boot image files the codec can parse: path -> fields
    nowrite,    \* paths that cannot be created or opened for writing
    errno,      \* the C library's errno
    ulbits,     \* the width of unsigned long on the build's platform
    opens,      \* every fopen so far: [path, mode, ok]
    builds,     \* every BootImage::createFile call so far: [image, file, ok]
    mkdirs,     \* every io::createDirectories call so far: [dir, ok]
    loads,      \* every BootImage::loadFile call so far: [file, ok, image]
    given,      \* the options getopt_long has returned to this process: [opt, optarg]
    stdio       \* what has been printed: [fd, msg]

vars == <<script, status, pc, argv, cmd, rest, words, opt, path, values, text, num,
          blob, item, bi, fs, images, nowrite, errno, ulbits, opens, builds,
          mkdirs, loads, given, stdio>>

locals == <<rest, words, opt, path, values, text, num, blob, item, bi, given>>

world == <<fs, images, nowrite, ulbits>>

calls == <<opens, builds, mkdirs, loads>>

Types == {"android", "bump", "loki", "sonyelf"}

NoOptions == [no_prefix |-> FALSE, dir |-> "", prefix |-> "", type |-> "android",
              file |-> ""]

\* fopen(p, "rb"): "absent" fails with ENOENT and "noaccess" with EACCES; an
\* "ioerr" file opens but every read of it fails; an "ok" file reads as data;
\* a "short" file opens, and fread meets its end before the size ftell gave,
\* which is no error and leaves errno as it was.
FileState(p) == IF p \in DOMAIN fs THEN fs[p].mode ELSE "absent"

OpenErrno(p) == IF FileState(p) = "absent" THEN "ENOENT" ELSE "EACCES"

\* write_file_fmt / write_file_data on p return true.
CanWrite(p) == p # "" /\ p \notin nowrite /\ FileState(p) \in {"absent", "ok"}

Put(f, p, d) == [q \in DOMAIN f \cup {p} |-> IF q = p THEN d ELSE f[q]]

Without(f, p) == [q \in DOMAIN f \ {p} |-> f[q]]

Out(fd, msg) == Append(stdio, [fd |-> fd, msg |-> msg])

\* main returning EXIT_SUCCESS whatever the subcommand returned.
ReturnSuccess(flag) ==
    /\ status' = Append(status, 0)
    /\ pc' = "shell"

\* `return flag;` from unpack_main or pack_main, then main's return.
Return(flag) ==
    /\ status' = Append(status, IF flag THEN 0 ELSE 1)
    /\ pc' = "shell"

\* ------------------------------------------------------------------------
\* main
\* ------------------------------------------------------------------------

Main ==
    /\ pc = "shell"
    /\ script # <<>>
    /\ script' = Tail(script)
    /\ argv' = Head(script)
    /\ LET args == Head(script)
           command == IF args = <<>> THEN "" ELSE args[1]
       IN  /\ rest' = IF args = <<>> THEN <<>> ELSE Tail(args)
           /\ IF args # <<>> /\ command \in {"unpack", "pack"}
              THEN /\ pc' = "getopt"
                   /\ cmd' = command
                   /\ UNCHANGED <<status, stdio>>
              ELSE /\ Return(FALSE)
                   /\ cmd' = "none"
                   /\ stdio' = Out(IF args = <<>> THEN "stdout" ELSE "stderr", "MainUsage")
    /\ words' = <<>>
    /\ opt' = NoOptions
    /\ path' = [k \in KeySet |-> ""]
    /\ values' = {}
    /\ text' = [k \in TextSet |-> ""]
    /\ num' = [k \in NumSet |-> Uninit]
    /\ blob' = NoBlobs
    /\ item' = 0
    /\ bi' = NewBootImage
    /\ given' = <<>>
    /\ errno' = "0"
    /\ UNCHANGED <<world, calls>>

\* ------------------------------------------------------------------------
\* pack_main
\* ------------------------------------------------------------------------

NumBase(k) == IF k \in HexSet THEN 16 ELSE 10

\* One iteration of the option loop: getopt_long and the switch on its result.
PackOption ==
    /\ pc = "getopt"
    /\ cmd = "pack"
    /\ LET g       == GetoptLong(rest, PackShortArg, PackShortFlag, PackLongNames)
           o       == g.opt
           a       == g.optarg
           isInput == StartsWith(o, "input-")
           isValue == StartsWith(o, "value-")
           k       == SubSeq(o, 7, Len(o))
           conv    == StrToUint32(a, NumBase(k), ulbits)
           action  ==
               CASE o = "-1"                      -> "done"
                 [] o \in {"i", "p", "n"}         -> "set"
                 [] isInput                       -> "set"
                 [] isValue /\ k \in TextSet      -> "set"
                 [] isValue /\ k \in NumSet       -> IF conv.ok THEN "set" ELSE "invalid"
                 [] o = "t"                       -> IF a \in Types THEN "set" ELSE "badtype"
                 [] o = "h"                       -> "help"
                 [] OTHER                         -> "usage"
       IN  /\ rest' = g.rest
           /\ words' = words \o g.words
           /\ given' = IF o = "-1" THEN given ELSE Append(given, [opt |-> o, optarg |-> a])
           /\ opt' = CASE o = "i" -> [opt EXCEPT !.dir = a]
                       [] o = "p" -> [opt EXCEPT !.prefix = a]
                       [] o = "n" -> [opt EXCEPT !.no_prefix = TRUE]
                       [] o = "t" /\ a \in Types -> [opt EXCEPT !.type = a]
                       [] OTHER -> opt
           /\ path' = IF isInput THEN [path EXCEPT ![k] = a]
                      ELSE IF isValue THEN [path EXCEPT ![k] = ""]
                      ELSE path
           /\ values' = IF isValue THEN values \cup {k} ELSE values
           /\ text' = IF isValue /\ k \in TextSet THEN [text EXCEPT ![k] = a] ELSE text
           /\ num' = IF isValue /\ k \in NumSet /\ conv.ok
                     THEN [num EXCEPT ![k] = conv.value] ELSE num
           /\ CASE action = "done" ->
                     /\ pc' = "resolve"
                     /\ UNCHANGED <<status, stdio>>
                [] action = "set" ->
                     UNCHANGED <<pc, status, stdio>>
                [] action = "invalid" ->
                     /\ Return(FALSE)
                     /\ stdio' = Out("stderr", "Invalid " \o k \o ": " \o a)
                [] action = "badtype" ->
                     /\ Return(FALSE)
                     /\ stdio' = Out("stderr", "Invalid type: " \o a)
                [] action = "help" ->
                     /\ Return(TRUE)
                     /\ stdio' = Out("stdout", "PackUsage")
                [] action = "usage" ->
                     /\ Return(FALSE)
                     /\ stdio' = Out("stderr", "PackUsage")
    /\ UNCHANGED <<script, argv, cmd, blob, item, bi, errno, world, calls>>

\* printf of one line of the "Input files:" listing.
PackListing(k, p) ==
    IF p # "" THEN "- " \o k \o ": (path) " \o p
    ELSE IF k \in TextSet THEN "- " \o k \o ": (value) " \o text[k]
    ELSE IF k \in HexSet THEN "- " \o k \o ": (value) " \o Hex8(num[k])
    ELSE "- " \o k \o ": (value) " \o Dec(num[k])

\* EffectivePrefix without its no_prefix branch: the prefix an implementation
\* that forgot -n would use.
EffectivePrefixIgnoringN(o, file) ==
    (IF o.prefix = "" THEN BaseName(file) ELSE o.prefix) \o "-"

\* EffectivePrefix with an explicit prefix taking precedence over no_prefix.
EffectivePrefixExplicitWins(o, file) ==
    IF o.prefix # "" THEN o.prefix \o "-"
    ELSE IF o.no_prefix THEN ""
    ELSE BaseName(file) \o "-"

\* EffectiveDir without the fallback to ".".
EffectiveDirAsGiven(o) == o.dir

\* The prefix and directory both subcommands derive from the options.
EffectivePrefix(o, file) ==
    IF o.no_prefix THEN ""
    ELSE (IF o.prefix = "" THEN BaseName(file) ELSE o.prefix) \o "-"

EffectiveDir(o) == IF o.dir = "" THEN "." ELSE o.dir

\* PackPath with a default path for aboot, like that of the other items.
PackPathAbootDefault(k, d, pfx) ==
    IF path[k] = "" /\ k \notin values THEN PathJoin(d, pfx \o k)
    ELSE path[k]

\* The path of item k after the defaults are filled in (pack).
PackPath(k, d, pfx) ==
    IF k = "aboot" THEN path[k]
    ELSE IF path[k] = "" /\ k \notin values THEN PathJoin(d, pfx \o k)
    ELSE path[k]

\* The keys the "Input files:" listing prints, in order.
PackListed == SelectSeq(PackKeys, LAMBDA k : k # "aboot")

\* The Loki test with the emptiness of the aboot path negated.
LokiWithAboot == opt.type = "loki" /\ path["aboot"] # ""

\* type == Loki && path_aboot.empty()
LokiWithoutAboot == opt.type = "loki" /\ path["aboot"] = ""

\* After the option loop: the Loki check, the positional argument, the prefix,
\* the directory, the default paths and the listing.
PackResolve ==
    /\ pc = "resolve"
    /\ cmd = "pack"
    /\ IF LokiWithoutAboot
       THEN /\ Return(FALSE)
            /\ stdio' = Out("stderr", "An aboot image must be specified to create a loki image")
            /\ UNCHANGED <<opt, path, item>>
       ELSE IF Len(words) # 1
       THEN /\ Return(FALSE)
            /\ stdio' = Out("stderr", "PackUsage")
            /\ UNCHANGED <<opt, path, item>>
       ELSE LET file == words[1]
                pfx  == EffectivePrefix(opt, file)
                d    == EffectiveDir(opt)
                np   == [k \in KeySet |-> PackPath(k, d, pfx)]
            IN  /\ opt' = [opt EXCEPT !.file = file, !.prefix = pfx, !.dir = d]
                /\ path' = np
                /\ stdio' = stdio \o [i \in 1..Len(PackListed) |->
                                [fd |-> "stdout", msg |-> PackListing(PackListed[i], np[PackListed[i]])]]
                /\ item' = 1
                /\ pc' = "read"
                /\ UNCHANGED status
    /\ UNCHANGED <<script, argv, cmd, rest, words, values, text, num, blob, bi, errno,
                   given, world, calls>>

\* ReadText leaving the local as it is, instead of taking the codec's default,
\* when the file cannot be opened.
ReadTextKeepsLocal(k) ==
    LET p  == path[k]
        st == FileState(p)
    IN  CASE st \in {"ok", "short"} ->
               [go |-> TRUE, value |-> FgetsLine(fs[p].data, TextSize(k)),
                errno |-> errno, msg |-> ""]
          [] st = "ioerr" ->
               [go |-> FALSE, value |-> text[k], errno |-> "EIO", msg |-> p \o ": EIO"]
          [] OTHER ->
               [go |-> TRUE, value |-> text[k], errno |-> OpenErrno(p), msg |-> ""]

\* What reading scalar item k from its file gives: the new value, and whether
\* pack goes on.
ReadText(k) ==
    LET p  == path[k]
        st == FileState(p)
    IN  CASE st \in {"ok", "short"} ->
               [go |-> TRUE, value |-> FgetsLine(fs[p].data, TextSize(k)),
                errno |-> errno, msg |-> ""]
          [] st = "ioerr" ->
               [go |-> FALSE, value |-> text[k], errno |-> "EIO", msg |-> p \o ": EIO"]
          [] OTHER ->
               [go |-> TRUE, value |-> DefaultText(k), errno |-> OpenErrno(p), msg |-> ""]

\* ReadNum with a failed fopen treated as fatal instead of falling back to
\* the default.
ReadNumOpenFatal(k) ==
    LET p  == path[k]
        st == FileState(p)
        r  == ScanfUInt(fs[p].data, IF k \in HexSet THEN 8 ELSE 0, NumBase(k))
        fmt == IF k \in HexSet THEN "%08x" ELSE "%u"
    IN  CASE st \in {"ok", "short"} ->
               IF r.count = 1
               THEN [go |-> TRUE, value |-> r.value, errno |-> errno, msg |-> ""]
               ELSE [go |-> FALSE, value |-> num[k], errno |-> errno,
                     msg |-> p \o ": Error: expected '" \o fmt \o "' format"]
          [] st = "ioerr" ->
               [go |-> FALSE, value |-> num[k], errno |-> "EIO", msg |-> p \o ": EIO"]
          [] OTHER ->
               [go |-> FALSE, value |-> num[k], errno |-> OpenErrno(p),
                msg |-> p \o ": " \o OpenErrno(p)]

\* ReadNum taking the codec's default for a file that holds nothing.
ReadNumEmptyDefault(k) ==
    LET p  == path[k]
        st == FileState(p)
        r  == ScanfUInt(fs[p].data, IF k \in HexSet THEN 8 ELSE 0, NumBase(k))
        fmt == IF k \in HexSet THEN "%08x" ELSE "%u"
    IN  CASE st \in {"ok", "short"} ->
               IF r.count = 1
               THEN [go |-> TRUE, value |-> r.value, errno |-> errno, msg |-> ""]
               ELSE IF fs[p].data = ""
               THEN [go |-> TRUE, value |-> DefaultNum(k), errno |-> errno, msg |-> ""]
               ELSE [go |-> FALSE, value |-> num[k], errno |-> errno,
                     msg |-> p \o ": Error: expected '" \o fmt \o "' format"]
          [] st = "ioerr" ->
               [go |-> FALSE, value |-> num[k], errno |-> "EIO", msg |-> p \o ": EIO"]
          [] OTHER ->
               [go |-> TRUE, value |-> DefaultNum(k), errno |-> OpenErrno(p), msg |-> ""]

\* The block of pack_main that reads a numeric item: fopen, fscanf, and the
\* codec's default when fopen gives no stream.
ReadNum(k) ==
    LET p  == path[k]
        st == FileState(p)
        r  == ScanfUInt(fs[p].data, IF k \in HexSet THEN 8 ELSE 0, NumBase(k))
        fmt == IF k \in HexSet THEN "%08x" ELSE "%u"
    IN  CASE st \in {"ok", "short"} ->
               IF r.count = 1
               THEN [go |-> TRUE, value |-> r.value, errno |-> errno, msg |-> ""]
               ELSE [go |-> FALSE, value |-> num[k], errno |-> errno,
                     msg |-> p \o ": Error: expected '" \o fmt \o "' format"]
          [] st = "ioerr" ->
               [go |-> FALSE, value |-> num[k], errno |-> "EIO", msg |-> p \o ": EIO"]
          [] OTHER ->
               [go |-> TRUE, value |-> DefaultNum(k), errno |-> OpenErrno(p), msg |-> ""]

\* ReadBlob with the kernel and the ramdisk tested like the optional blobs,
\* with `&& errno != ENOENT`.
ReadBlobAllOptional(k) ==
    LET p    == path[k]
        st   == FileState(p)
        ok   == st = "ok"
        e    == CASE st \in {"ok", "short"} -> errno
                  [] st = "ioerr" -> "EIO"
                  [] OTHER -> OpenErrno(p)
        fatal == ~ok /\ e # "ENOENT"
    IN  [go |-> ~fatal, value |-> IF ok THEN fs[p].data ELSE blob[k], errno |-> e,
         msg |-> IF fatal THEN p \o ": " \o e ELSE ""]

\* read_file_data(path, &out), then the caller's test of its result.
ReadBlob(k) ==
    LET p    == path[k]
        st   == FileState(p)
        ok   == st = "ok"
        e    == CASE st \in {"ok", "short"} -> errno
                  [] st = "ioerr" -> "EIO"
                  [] OTHER -> OpenErrno(p)
        fatal == IF k \in {"kernel", "ramdisk"} THEN ~ok ELSE ~ok /\ e # "ENOENT"
    IN  [go |-> ~fatal, value |-> IF ok THEN fs[p].data ELSE blob[k], errno |-> e,
         msg |-> IF fatal THEN p \o ": " \o e ELSE ""]

\* The block of pack_main that loads one item, in schema order.
PackRead ==
    /\ pc = "read"
    /\ cmd = "pack"
    /\ LET k == PackKeys[item]
           skip == k \in values
           r == IF skip THEN [go |-> TRUE, errno |-> errno, msg |-> ""]
                ELSE IF k \in TextSet THEN ReadText(k)
                ELSE IF k \in NumSet THEN ReadNum(k)
                ELSE ReadBlob(k)
       IN  /\ text' = IF ~skip /\ k \in TextSet THEN [text EXCEPT ![k] = r.value] ELSE text
           /\ num' = IF ~skip /\ k \in NumSet THEN [num EXCEPT ![k] = r.value] ELSE num
           /\ blob' = IF k \in BlobSet THEN [blob EXCEPT ![k] = r.value] ELSE blob
           /\ errno' = r.errno
           /\ opens' = IF skip THEN opens
                       ELSE Append(opens, [path |-> path[k], mode |-> "rb",
                                           ok |-> FileState(path[k]) \in
                                                    {"ok", "ioerr", "short"}])
           /\ IF r.go
              THEN /\ item' = item + 1
                   /\ pc' = IF item = Len(PackKeys) THEN "build" ELSE "read"
                   /\ UNCHANGED <<status, stdio>>
              ELSE /\ Return(FALSE)
                   /\ stdio' = Out("stderr", r.msg)
                   /\ UNCHANGED item
    /\ UNCHANGED <<script, argv, cmd, rest, words, opt, path, values, bi, given, world,
                   builds, mkdirs, loads>>

\* The setters pack_main calls on the boot image before createFile.
PackAssemble(b) ==
    [SetAddresses(b, num["base"], num["kernel_offset"], num["ramdisk_offset"],
                  num["second_offset"], num["tags_offset"])
        EXCEPT !.cmdline  = text["cmdline"],
               !.board    = text["board"],
               !.pageSize = num["page_size"],
               !.blob     = blob,
               !.type     = opt.type]

\* The scalar locals pack_main passes to a setter: setKernelCmdline and
\* setBoardName, and setAddresses and setPageSize.
PackTextArgs == [k \in {"cmdline", "board"} |-> text[k]]

PackNumArgs ==
    [k \in {"base", "kernel_offset", "ramdisk_offset", "second_offset", "tags_offset",
            "page_size"} |-> num[k]]

\* The end of pack_main: the setters, then BootImage::createFile, which the
\* codec may refuse.
PackBuild ==
    /\ pc = "build"
    /\ cmd = "pack"
    /\ bi' = PackAssemble(bi)
    /\ \E ok \in BOOLEAN :
        /\ builds' = Append(builds, [image |-> bi', file |-> opt.file, ok |-> ok,
                                      textArgs |-> PackTextArgs, numArgs |-> PackNumArgs])
        /\ images' = IF ok THEN Put(images, opt.file, bi') ELSE images
        /\ fs' = IF ok THEN Without(fs, opt.file) ELSE fs
        /\ Return(ok)
        /\ stdio' = IF ok THEN Out("stdout", "Done")
                    ELSE Out("stderr", "Failed to create boot image")
    /\ UNCHANGED <<script, argv, cmd, rest, words, opt, path, values, text, num, blob,
                   item, given, nowrite, ulbits, errno, opens, mkdirs, loads>>

\* ------------------------------------------------------------------------
\* unpack_main
\* ------------------------------------------------------------------------

\* One iteration of the option loop: getopt_long and the switch on its result.
UnpackOption ==
    /\ pc = "getopt"
    /\ cmd = "unpack"
    /\ LET g        == GetoptLong(rest, UnpackShortArg, UnpackShortFlag, UnpackLongNames)
           o        == g.opt
           a        == g.optarg
           isOutput == StartsWith(o, "output-")
           k        == SubSeq(o, 8, Len(o))
       IN  /\ rest' = g.rest
           /\ words' = words \o g.words
           /\ given' = IF o = "-1" THEN given ELSE Append(given, [opt |-> o, optarg |-> a])
           /\ opt' = CASE o = "o" -> [opt EXCEPT !.dir = a]
                       [] o = "p" -> [opt EXCEPT !.prefix = a]
                       [] o = "n" -> [opt EXCEPT !.no_prefix = TRUE]
                       [] OTHER -> opt
           /\ path' = IF isOutput THEN [path EXCEPT ![k] = a] ELSE path
           /\ CASE o = "-1" ->
                     /\ pc' = "resolve"
                     /\ UNCHANGED <<status, stdio>>
                [] IF isOutput THEN TRUE ELSE o \in {"o", "p", "n"} ->
                     UNCHANGED <<pc, status, stdio>>
                [] o = "h" ->
                     /\ Return(TRUE)
                     /\ stdio' = Out("stdout", "UnpackUsage")
                [] OTHER ->
                     /\ Return(FALSE)
                     /\ stdio' = Out("stderr", "UnpackUsage")
    /\ UNCHANGED <<script, argv, cmd, values, text, num, blob, item, bi, errno, world, calls>>

\* UnpackPath with the default path taken whatever --output-X gave.
UnpackPathAlwaysDefault(k, d, pfx) == PathJoin(d, pfx \o k)

\* The path of item k after the defaults are filled in (unpack).
UnpackPath(k, d, pfx) == IF path[k] = "" THEN PathJoin(d, pfx \o k) ELSE path[k]

\* After the option loop: the positional argument, the prefix, the directory,
\* the default paths and the "Output files:" listing.
UnpackResolve ==
    /\ pc = "resolve"
    /\ cmd = "unpack"
    /\ IF Len(words) # 1
       THEN /\ Return(FALSE)
            /\ stdio' = Out("stderr", "UnpackUsage")
            /\ UNCHANGED <<opt, path>>
       ELSE LET file == words[1]
                pfx  == EffectivePrefix(opt, file)
                d    == EffectiveDir(opt)
                np   == [k \in KeySet |->
                            IF k = "aboot" THEN path[k] ELSE UnpackPath(k, d, pfx)]
            IN  /\ opt' = [opt EXCEPT !.file = file, !.prefix = pfx, !.dir = d]
                /\ path' = np
                /\ stdio' = stdio \o [i \in 1..Len(UnpackKeys) |->
                                [fd |-> "stdout",
                                 msg |-> "- " \o UnpackKeys[i] \o ": " \o np[UnpackKeys[i]]]]
                /\ pc' = "mkdir"
                /\ UNCHANGED status
    /\ UNCHANGED <<script, argv, cmd, rest, words, values, text, num, blob, item, bi,
                   errno, given, world, calls>>

\* io::createDirectories(output_dir), which may fail.
UnpackCreateDir ==
    /\ pc = "mkdir"
    /\ cmd = "unpack"
    /\ \E ok \in BOOLEAN :
        /\ mkdirs' = Append(mkdirs, [dir |-> opt.dir, ok |-> ok])
        /\ IF ok
           THEN /\ pc' = "load"
                /\ UNCHANGED <<status, stdio>>
           ELSE /\ Return(FALSE)
                /\ stdio' = Out("stderr", opt.dir \o ": Failed to create directory")
    /\ UNCHANGED <<script, argv, cmd, locals, errno, world, opens, builds, loads>>

\* UnpackOffsets with the offsets taken from the kernel address instead of
\* the base.
UnpackOffsetsFromKernel(b) ==
    LET base == U32Sub(b.kernelAddr, DefaultKernelOffset)
    IN  [base           |-> base,
         kernel_offset  |-> DefaultKernelOffset,
         ramdisk_offset |-> U32Sub(b.ramdiskAddr, b.kernelAddr),
         second_offset  |-> U32Sub(b.secondAddr, b.kernelAddr),
         tags_offset    |-> U32Sub(b.tagsAddr, b.kernelAddr)]

\* The base and the offsets unpack_main derives from the parsed addresses.
UnpackOffsets(b) ==
    LET base == U32Sub(b.kernelAddr, DefaultKernelOffset)
    IN  [base           |-> base,
         kernel_offset  |-> DefaultKernelOffset,
         ramdisk_offset |-> U32Sub(b.ramdiskAddr, base),
         second_offset  |-> U32Sub(b.secondAddr, base),
         tags_offset    |-> U32Sub(b.tagsAddr, base)]

\* UnpackLoad going on with a fresh image when the file does not parse.
UnpackLoadLenient ==
    /\ pc = "load"
    /\ cmd = "unpack"
    /\ loads' = Append(loads, [file |-> opt.file, ok |-> opt.file \in DOMAIN images,
                                image |-> IF opt.file \in DOMAIN images
                                          THEN images[opt.file] ELSE NewBootImage])
    /\ LET b == IF opt.file \in DOMAIN images THEN images[opt.file] ELSE NewBootImage
           off == UnpackOffsets(b)
       IN  /\ bi' = b
           /\ num' = [k \in NumSet |-> IF k \in DOMAIN off THEN off[k] ELSE num[k]]
           /\ item' = 1
           /\ pc' = "write"
           /\ UNCHANGED <<status, stdio>>
    /\ UNCHANGED <<script, argv, cmd, rest, words, opt, path, values, text, blob, errno,
                   given, world, opens, builds, mkdirs>>

\* bi.loadFile(input_file), then the base and the offsets.
UnpackLoad ==
    /\ pc = "load"
    /\ cmd = "unpack"
    /\ loads' = Append(loads, [file |-> opt.file, ok |-> opt.file \in DOMAIN images,
                                image |-> IF opt.file \in DOMAIN images
                                          THEN images[opt.file] ELSE NewBootImage])
    /\ IF opt.file \in DOMAIN images
       THEN LET b == images[opt.file]
                off == UnpackOffsets(b)
            IN  /\ bi' = b
                /\ num' = [k \in NumSet |-> IF k \in DOMAIN off THEN off[k] ELSE num[k]]
                /\ item' = 1
                /\ pc' = "write"
                /\ UNCHANGED <<status, stdio>>
       ELSE /\ Return(FALSE)
            /\ stdio' = Out("stderr", "Failed to parse boot image")
            /\ UNCHANGED <<bi, num, item>>
    /\ UNCHANGED <<script, argv, cmd, rest, words, opt, path, values, text, blob, errno,
                   given, world, opens, builds, mkdirs>>

\* The bytes unpack_main writes for item k of image b with the offsets off:
\* "%s\n" for the text items, "%08x\n" for the hex items, "%u\n" for the page
\* size, the raw bytes for a blob.
ItemData(b, off, k) ==
    CASE k = "cmdline"        -> b.cmdline \o "\n"
      [] k = "board"          -> b.board \o "\n"
      [] k = "base"           -> Hex8(off.base) \o "\n"
      [] k = "kernel_offset"  -> Hex8(off.kernel_offset) \o "\n"
      [] k = "ramdisk_offset" -> Hex8(off.ramdisk_offset) \o "\n"
      [] k = "second_offset"  -> Hex8(off.second_offset) \o "\n"
      [] k = "tags_offset"    -> Hex8(off.tags_offset) \o "\n"
      [] k = "ipl_address"    -> Hex8(b.iplAddr) \o "\n"
      [] k = "rpm_address"    -> Hex8(b.rpmAddr) \o "\n"
      [] k = "appsbl_address" -> Hex8(b.appsblAddr) \o "\n"
      [] k = "entrypoint"     -> Hex8(b.entrypoint) \o "\n"
      [] k = "page_size"      -> Dec(b.pageSize) \o "\n"
      [] OTHER                -> b.blob[k]

\* UnpackWrite with the file of an empty blob left out.
UnpackWriteSkipsEmpty ==
    /\ pc = "write"
    /\ cmd = "unpack"
    /\ LET k  == UnpackKeys[item]
           p  == path[k]
           ok == CanWrite(p)
           d  == ItemData(bi, num, k)
       IN  /\ opens' = IF d = "" THEN opens ELSE Append(opens, [path |-> p, mode |-> "wb", ok |-> ok])
           /\ IF ok \/ d = ""
              THEN /\ fs' = IF d = "" THEN fs ELSE Put(fs, p, [mode |-> "ok", data |-> d])
                   /\ UNCHANGED errno
                   /\ IF item = Len(UnpackKeys)
                      THEN /\ Return(TRUE)
                           /\ stdio' = Out("stdout", "Done")
                           /\ UNCHANGED item
                      ELSE /\ item' = item + 1
                           /\ UNCHANGED <<pc, status, stdio>>
              ELSE /\ Return(FALSE)
                   /\ errno' = "EACCES"
                   /\ stdio' = Out("stderr", p \o ": EACCES")
                   /\ UNCHANGED <<fs, item>>
    /\ UNCHANGED <<script, argv, cmd, rest, words, opt, path, values, text, num, blob, bi,
                   given, images, nowrite, ulbits, builds, mkdirs, loads>>

\* UnpackWrite going on to the next item after a write that failed.
UnpackWriteKeepsGoing ==
    /\ pc = "write"
    /\ cmd = "unpack"
    /\ LET k  == UnpackKeys[item]
           p  == path[k]
           ok == CanWrite(p)
       IN  /\ opens' = Append(opens, [path |-> p, mode |-> "wb", ok |-> ok])
           /\ fs' = IF ok THEN Put(fs, p, [mode |-> "ok", data |-> ItemData(bi, num, k)])
                    ELSE fs
           /\ errno' = IF ok THEN errno ELSE "EACCES"
           /\ IF item = Len(UnpackKeys)
              THEN /\ Return(\A i \in 1..Len(opens') : opens'[i].ok)
                   /\ stdio' = Out("stdout", "Done")
                   /\ UNCHANGED item
              ELSE /\ item' = item + 1
                   /\ UNCHANGED <<pc, status, stdio>>
    /\ UNCHANGED <<script, argv, cmd, rest, words, opt, path, values, text, num, blob, bi,
                   given, images, nowrite, ulbits, builds, mkdirs, loads>>

\* The block of unpack_main that writes one item, in schema order.  When
\* write_file_fmt or write_file_data returns false, either fopen failed and
\* the file is as it was, or the write failed and the file is there, empty.
\* A file that held a boot image holds one no longer once it is written.
UnpackWrite ==
    /\ pc = "write"
    /\ cmd = "unpack"
    /\ LET k  == UnpackKeys[item]
           p  == path[k]
           ok == CanWrite(p)
       IN  /\ opens' = Append(opens, [path |-> p, mode |-> "wb", ok |-> ok])
           /\ IF ok
              THEN /\ fs' = Put(fs, p, [mode |-> "ok", data |-> ItemData(bi, num, k)])
                   /\ images' = Without(images, p)
                   /\ UNCHANGED errno
                   /\ IF item = Len(UnpackKeys)
                      THEN /\ Return(TRUE)
                           /\ stdio' = Out("stdout", "Done")
                           /\ UNCHANGED item
                      ELSE /\ item' = item + 1
                           /\ UNCHANGED <<pc, status, stdio>>
              ELSE \E created \in BOOLEAN :
                   /\ Return(FALSE)
                   /\ fs' = IF created /\ p # "" /\ FileState(p) \in {"absent", "ok"}
                            THEN Put(fs, p, [mode |-> "ok", data |-> ""])
                            ELSE fs
                   /\ images' = IF created /\ p # "" /\ FileState(p) \in {"absent", "ok"}
                                THEN Without(images, p)
                                ELSE images
                   /\ errno' = IF created THEN "EIO" ELSE "EACCES"
                   /\ stdio' = Out("stderr", p \o ": " \o errno')
                   /\ UNCHANGED item
    /\ UNCHANGED <<script, argv, cmd, rest, words, opt, path, values, text, num, blob, bi,
                   given, nowrite, ulbits, builds, mkdirs, loads>>

\* ------------------------------------------------------------------------
\* The command lines and file systems the model runs the tool on
\* ------------------------------------------------------------------------

\* At most MaxOpts options on a command line, at most MaxFaults item files
\* that differ from what unpack wrote.
MaxOpts == 2
MaxFaults == 1

SeqsUpTo(S, n) == UNION {[1..m -> S] : m \in 0..n}

RECURSIVE Flatten(_)
Flatten(ss) == IF ss = <<>> THEN <<>> ELSE Head(ss) \o Flatten(Tail(ss))

\* A boot image with no field at its default.
RefImage ==
    [cmdline    |-> "console=ttyS0 quiet",
     board      |-> "ref",
     kernelAddr |-> U32(32800, 32768),
     ramdiskAddr|-> U32(33312, 0),
     secondAddr |-> U32(33040, 0),
     tagsAddr   |-> U32(32800, 256),
     iplAddr    |-> U32(1, 1),
     rpmAddr    |-> U32(2, 2),
     appsblAddr |-> U32(3, 3),
     entrypoint |-> U32(4, 4),
     pageSize   |-> U32(0, 4096),
     blob       |-> [k \in BlobSet |->
                      CASE k = "kernel"  -> "KERNEL"
                        [] k = "ramdisk" -> "RAMDISK"
                        [] k = "second"  -> "SECOND"
                        [] k = "dt"      -> "DT"
                        [] k = "ipl"     -> "IPL"
                        [] k = "sin"     -> "SIN"
                        [] OTHER         -> ""],
     type       |-> "android"]

\* Images whose addresses lie below, at and above the default kernel offset,
\* so that the base and the offsets wrap around.
AddrSamples == {U32(0, 0), U32(0, 32767), U32(0, 32768), U32(65535, 65535)}

AddrImages ==
    {[RefImage EXCEPT !.kernelAddr = ka, !.ramdiskAddr = ra, !.secondAddr = sa,
                      !.tagsAddr = ta] :
        ka \in AddrSamples, ra \in AddrSamples, sa \in AddrSamples, ta \in AddrSamples}

\* Images for a round trip: the reference image, a fresh image, one whose
\* ramdisk lies below the base, one with empty text fields and no optional
\* blob, and a Sony ELF image.
TripImages ==
    {RefImage,
     NewBootImage,
     [RefImage EXCEPT !.ramdiskAddr = U32(0, 16), !.tagsAddr = U32(65535, 65535)],
     [RefImage EXCEPT !.cmdline = "", !.board = "", !.blob = [NoBlobs EXCEPT
                        !["kernel"] = "K", !["ramdisk"] = "R"]],
     [RefImage EXCEPT !.type = "sonyelf", !.pageSize = U32(65535, 65535)]}

\* The directory of item files unpack leaves for image b in directory d with
\* prefix pfx.
UnpackedFs(b, d, pfx) ==
    LET at == [k \in Range(UnpackKeys) |-> PathJoin(d, pfx \o k)]
    IN  [p \in {at[k] : k \in Range(UnpackKeys)} |->
            [mode |-> "ok",
             data |-> ItemData(b, UnpackOffsets(b),
                               CHOOSE k \in Range(UnpackKeys) : at[k] = p)]]

NoFiles == [p \in {} |-> [mode |-> "ok", data |-> ""]]

NoImages == [p \in {} |-> RefImage]

\* File f with path p made absent, unreadable, failing on read, or holding data.
WithFile(f, p, mode, data) ==
    IF mode = "absent" THEN [q \in DOMAIN f \ {p} |-> f[q]]
    ELSE Put(f, p, [mode |-> mode, data |-> data])

RECURSIVE WithFaults(_, _)
WithFaults(f, faults) ==
    IF faults = <<>> THEN f
    ELSE WithFaults(WithFile(f, faults[1].path, faults[1].mode, faults[1].data),
                    Tail(faults))

Scenario(sc, f, im, nw, ul) ==
    [script |-> sc, fs |-> f, images |-> im, nowrite |-> nw, ulbits |-> ul]

\* --- pack: the option grammar ---------------------------------------------

PackGeneralOpts ==
    {<<"-i", "d">>, <<"-p", "p">>, <<"-n">>, <<"--noprefix">>, <<"-t", "loki">>,
     <<"-t", "bogus">>, <<"-h">>, <<"--help">>, <<"--input-aboot=ab">>,
     <<"--input-aboot=">>}

\* The item files unpack wrote for the reference image in "." under the
\* prefix of "boot.img", and an aboot image beside them.
RefDir == WithFile(UnpackedFs(RefImage, ".", "boot.img-"), "ab", "ok", "ABOOT")

\* What "pack" may find when the options above name a directory and a prefix.
PackDirs ==
    {RefDir,
     WithFile(UnpackedFs(RefImage, "d", "p-"), "ab", "ok", "ABOOT")}

\* The options before the image, or the image first.
PackGeneralLines ==
    {<<"pack">> \o Flatten(os) \o <<"boot.img">> : os \in SeqsUpTo(PackGeneralOpts, MaxOpts)}
        \cup {<<"pack", "boot.img">> \o Flatten(os) :
                    os \in SeqsUpTo(PackGeneralOpts, MaxOpts - 1)}

PackGeneralScenarios ==
    {Scenario(<<line>>, f, NoImages, {}, 64) : line \in PackGeneralLines, f \in PackDirs}

\* The options that name one item: a path, an empty path, a literal that
\* parses and one that does not.
Literal(k) == IF k \in DecKeySet THEN "1024" ELSE "12ab"

ItemOpts(k) ==
    {<<"--input-" \o k \o "=alt">>, <<"--input-" \o k \o "=">>}
        \cup (IF k \in ScalarSet
              THEN {<<"--value-" \o k \o "=" \o Literal(k)>>, <<"--value-" \o k, "zz">>}
              ELSE {})

\* No option for item k, one, or one after another.
ItemOptLists(k) ==
    {<<>>} \cup {<<a>> : a \in ItemOpts(k)} \cup (ItemOpts(k) \X ItemOpts(k))

\* A file for item k that differs from the one unpack wrote.
OtherData(k) ==
    IF k \in TextSet THEN "other\n"
    ELSE IF k \in HexSet THEN "0000beef\n"
    ELSE IF k \in NumSet THEN "512\n"
    ELSE "OTHER"

AltFiles(k) ==
    {WithFile(RefDir, "alt", m, OtherData(k)) : m \in {"absent", "noaccess", "ok"}}

PackItemScenarios ==
    UNION {{Scenario(<<<<"pack", "boot.img">> \o Flatten(os)>>, f, NoImages, {}, 64) :
                os \in ItemOptLists(k), f \in AltFiles(k)} :
           k \in KeySet}

\* --- pack: the item files -------------------------------------------------

BadData(k) ==
    IF k \in TextSet THEN {"", "two\nlines\n", "no newline"}
    ELSE IF k = "base" THEN {"", "1234\n", "12345678zz\n", "zz\n", "-1\n"}
    ELSE IF k \in HexSet THEN {"", "1234\n", "12345678zz\n"}
    ELSE IF k \in NumSet THEN {"", "12ab\n", "zz\n"}
    ELSE {""}

PackFileOf(k) == IF k = "aboot" THEN "ab" ELSE PathJoin(".", "boot.img-" \o k)

\* Item i of the schema made absent, unreadable, failing on read, or holding
\* something unpack would not have written.
FaultsAt(i) ==
    LET k == PackKeys[i]
    IN  {[at |-> i, path |-> PackFileOf(k), mode |-> m, data |-> ""] :
            m \in {"absent", "noaccess", "ioerr"}}
        \cup {[at |-> i, path |-> PackFileOf(k), mode |-> "ok", data |-> x] : x \in BadData(k)}

Faults == UNION {FaultsAt(i) : i \in 1..Len(PackKeys)}

\* Faults on up to n distinct items, in schema order; every fault but the last
\* is a file missing.
FaultLists(n) ==
    {fl \in SeqsUpTo(Faults, n) :
        \A i \in 1..(Len(fl) - 1) :
            fl[i].at < fl[i + 1].at /\ fl[i].mode = "absent"}

PackFaultScenarios ==
    {Scenario(<<<<"pack", "boot.img", "--input-aboot", "ab">>>>, WithFaults(RefDir, fl),
              NoImages, {}, 64) :
        fl \in FaultLists(MaxFaults)}

\* --- pack: short reads -------------------------------------------------------

\* An optional blob whose read comes up short, alone or after an item whose
\* file does not exist, with and without an aboot path.
PackShortReadScenarios ==
    {Scenario(<<line>>,
              WithFile(WithFile(RefDir, PackFileOf(k), "short", "OTHER"), e, "absent", ""),
              NoImages, {}, 64) :
        line \in {<<"pack", "boot.img">>, <<"pack", "boot.img", "--input-aboot", "ab">>},
        k \in {"second", "dt", "ipl", "sinhdr"},
        e \in {"none", PackFileOf("base"), PackFileOf("second")}}

\* --- pack: numeric literals -------------------------------------------------

\* Literals at and beyond the range of uint32_t and of a 64-bit unsigned long,
\* with a prefix, a sign, white space, and empty.
NumLiterals(k) ==
    IF k \in HexSet
    THEN {"ffffffff", "100000000", "10000000000000000", "0x10", "-1", " 12", "12 ", ""}
    ELSE {"4294967295", "4294967296", "99999999999999999999", "0x10", "-1", ""}

\* One literal for the base or the page size, on a platform whose unsigned
\* long has 32 bits and on one where it has 64.
PackLiteralScenarios ==
    {Scenario(<<<<"pack", "boot.img", "--value-" \o k, a>>>>, RefDir, NoImages, {}, ul) :
        k \in {"base", "page_size"},
        a \in NumLiterals("base") \cup NumLiterals("page_size"),
        ul \in {32, 64}}

\* Every target type, with every blob in turn absent, and with no item file
\* at all.
PackTypeLines ==
    {<<"pack", "boot.img">>, <<"pack", "boot.img", "-t", "android">>,
     <<"pack", "boot.img", "-t", "bump">>, <<"pack", "boot.img", "-t", "sonyelf">>,
     <<"pack", "boot.img", "-t", "loki", "--input-aboot", "ab">>}

PackTypeScenarios ==
    {Scenario(<<line>>, f, NoImages, {}, 64) :
        line \in PackTypeLines,
        f \in {RefDir, NoFiles}
              \cup {WithFile(RefDir, PackFileOf(k), "absent", "") : k \in BlobSet}}

\* --- unpack ---------------------------------------------------------------

UnpackGeneralOpts ==
    {<<"-o", "d">>, <<"-o", "out/">>, <<"-p", "p">>, <<"-n">>, <<"--noprefix">>,
     <<"-h">>, <<"--help">>}

OneImage(b) == [p \in {"boot.img", "dir/boot.img"} |-> b]

UnpackGeneralLines ==
    {<<"unpack">> \o Flatten(os) \o <<"boot.img">> : os \in SeqsUpTo(UnpackGeneralOpts, MaxOpts)}
        \cup {<<"unpack", "dir/boot.img">> \o Flatten(os) :
                    os \in SeqsUpTo(UnpackGeneralOpts, MaxOpts - 1)}

\* Every line with an image to parse, and a file that is no image, in an
\* empty directory and in one that holds item files already.
UnpackGeneralScenarios ==
    {Scenario(<<line>>, NoFiles, OneImage(RefImage), {}, 64) : line \in UnpackGeneralLines}
        \cup {Scenario(<<<<"unpack", "boot.img">>>>, f, NoImages, {}, 64) :
                    f \in {NoFiles, RefDir}}

\* One item sent to a path of its own, or one item's default path refusing
\* to be written.
UnpackItemScenarios ==
    {Scenario(<<<<"unpack", "boot.img">> \o o>>, NoFiles, OneImage(RefImage), {}, 64) :
        o \in UNION {{<<"--output-" \o k \o "=alt">>, <<"--output-" \o k, "">>} :
                     k \in Range(UnpackKeys)}}
    \cup
    {Scenario(<<<<"unpack", "boot.img">>>>, NoFiles, OneImage(RefImage),
              {PathJoin(".", "boot.img-" \o k)}, 64) :
        k \in Range(UnpackKeys)}

\* An item sent to the path of the image that is being unpacked.
UnpackAliasScenarios ==
    {Scenario(<<<<"unpack", "boot.img", "--output-" \o k, "boot.img">>>>, NoFiles,
              OneImage(RefImage), {}, 64) : k \in {"cmdline", "kernel", "sinhdr"}}

UnpackAddrScenarios ==
    {Scenario(<<<<"unpack", "boot.img">>>>, NoFiles, OneImage(b), {}, 64) : b \in AddrImages}

\* --- unpack, then pack ----------------------------------------------------

DirOpts(o) == {<<>>, <<o, "d">>, <<o, "out/">>}
PrefixOpts == {<<>>, <<"-p", "p">>, <<"-n">>}

TripScenarios ==
    {Scenario(<<<<"unpack", "boot.img">> \o Flatten(<<IF d = "" THEN <<>> ELSE <<"-o", d>>, pf>>),
                <<"pack", "boot.img">> \o Flatten(<<IF d = "" THEN <<>> ELSE <<"-i", d>>, pf>>)
                    \o (IF b.type = "android" THEN <<>> ELSE <<"-t", b.type>>)>>,
              NoFiles, OneImage(b), {}, 64) :
        d \in {"", "d", "out/"}, pf \in PrefixOpts, b \in TripImages}

\* --- pack: aboot --------------------------------------------------------------

\* A directory that holds a file named like a default path of aboot, packed
\* with no aboot path, and for Loki with an aboot path that does not exist.
PackAbootScenarios ==
    {Scenario(<<line>>, WithFile(RefDir, "./boot.img-aboot", "ok", "ABOOT2"), NoImages,
              {}, 64) :
        line \in {<<"pack", "boot.img">>, <<"pack", "boot.img", "-t", "bump">>,
                  <<"pack", "boot.img", "-t", "loki", "--input-aboot", "missing">>}}

\* --- empty overrides -----------------------------------------------------------

\* An empty prefix, an empty directory, both, each after a non-empty one, and
\* an empty prefix with -n.
EmptyOpts(d) ==
    {<<"-p", "">>, <<d, "">>, <<"-p", "", d, "">>, <<"-p", "p", "-p", "">>,
     <<d, "d", d, "">>, <<"-p", "", "-n">>}

EmptyOverrideScenarios ==
    {Scenario(<<<<"unpack">> \o o \o <<"dir/boot.img">>>>, NoFiles, OneImage(RefImage),
              {}, 64) : o \in EmptyOpts("-o")}
    \cup
    {Scenario(<<<<"pack">> \o o \o <<"dir/boot.img">>>>, f, NoImages, {}, 64) :
        o \in EmptyOpts("-i"), f \in PackDirs}

\* --- unpack, then pack: the text items ---------------------------------------

RECURSIVE Repeat(_, _)
Repeat(s, n) ==
    IF n = 0 THEN ""
    ELSE LET h == Repeat(s, n \div 2)
         IN  h \o h \o (IF n % 2 = 1 THEN s ELSE "")

\* Images whose board name and command line are empty, one character short
\* of the size of the field, of that size, and one character longer.
TextImages ==
    {[RefImage EXCEPT !.board = Repeat("b", BootNameSize + d),
                      !.cmdline = Repeat("c", BootArgsSize + d)] : d \in {-2, -1, 0, 1}}
        \cup {[RefImage EXCEPT !.board = "", !.cmdline = ""]}

TextTripScenarios ==
    {Scenario(<<<<"unpack", "boot.img">>, <<"pack", "boot.img">>>>, NoFiles, OneImage(b),
              {}, 64) : b \in TextImages}

Scenarios ==
    UnpackAliasScenarios \cup PackAbootScenarios \cup EmptyOverrideScenarios \cup TextTripScenarios \cup PackShortReadScenarios \cup PackGeneralScenarios \cup PackItemScenarios \cup PackFaultScenarios
        \cup PackLiteralScenarios \cup PackTypeScenarios
        \cup UnpackGeneralScenarios \cup UnpackItemScenarios \cup UnpackAddrScenarios
        \cup TripScenarios \cup {Scenario(<<<<>>>>, NoFiles, NoImages, {}, 64),
                                 Scenario(<<<<"repack", "boot.img">>>>, NoFiles, NoImages, {}, 64)}

\* ------------------------------------------------------------------------
\* The specification
\* ------------------------------------------------------------------------

Init ==
    \E sc \in Scenarios :
        /\ script = sc.script
        /\ fs = sc.fs
        /\ images = sc.images
        /\ nowrite = sc.nowrite
        /\ ulbits = sc.ulbits
        /\ status = <<>>
        /\ pc = "shell"
        /\ argv = <<>>
        /\ cmd = "none"
        /\ rest = <<>>
        /\ words = <<>>
        /\ opt = NoOptions
        /\ path = [k \in KeySet |-> ""]
        /\ values = {}
        /\ text = [k \in TextSet |-> ""]
        /\ num = [k \in NumSet |-> Uninit]
        /\ blob = NoBlobs
        /\ item = 0
        /\ bi = NewBootImage
        /\ errno = "0"
        /\ opens = <<>>
        /\ builds = <<>>
        /\ mkdirs = <<>>
        /\ loads = <<>>
        /\ given = <<>>
        /\ stdio = <<>>

Next ==
    \/ Main
    \/ PackOption
    \/ PackResolve
    \/ PackRead
    \/ PackBuild
    \/ UnpackOption
    \/ UnpackResolve
    \/ UnpackCreateDir
    \/ UnpackLoad
    \/ UnpackWrite

Spec == Init /\ [][Next]_vars

\* ------------------------------------------------------------------------
\* Properties
\* ------------------------------------------------------------------------

Idx(k) == CHOOSE i \in 1..Len(PackKeys) : PackKeys[i] = k

Last(q) == q[Len(q)]

\* The process that runs, or ran last, is the first one of the script.
FirstProcess == Len(status) + (IF pc = "shell" THEN 0 ELSE 1) = 1

\* pack has loaded item k and gone on / has returned false while loading item k /
\* has called createFile.
PackPassed(k) == cmd = "pack" /\ item > Idx(k)
PackFailedAt(k) == cmd = "pack" /\ pc = "shell" /\ item = Idx(k)
PackBuilt == cmd = "pack" /\ pc = "shell" /\ item = Len(PackKeys) + 1

\* The command line as getopt_long delivered it.
Given(o) == \E i \in 1..Len(given) : given[i].opt = o

LastArg(o) ==
    LET I == {i \in 1..Len(given) : given[i].opt = o}
    IN  IF I = {} THEN "" ELSE given[CHOOSE i \in I : \A j \in I : j <= i].optarg

\* The default path the specification gives item k, from the command line.
ExpectedDir ==
    LET d == LastArg(IF cmd = "pack" THEN "i" ELSE "o")
    IN  IF d = "" THEN "." ELSE d

ExpectedPrefix ==
    IF Given("n") THEN ""
    ELSE IF LastArg("p") # "" THEN LastArg("p") \o "-"
    ELSE BaseName(opt.file) \o "-"

ExpectedPath(k) == PathJoin(ExpectedDir, ExpectedPrefix \o k)

Resolved == cmd \in {"pack", "unpack"} /\ opt.file # ""

PathOption(k) == (IF cmd = "pack" THEN "input-" ELSE "output-") \o k

NoOverride(k) == ~Given(PathOption(k)) /\ ~Given("value-" \o k)

\* The scalar field k of boot image b.
TextField(b, k) == IF k = "cmdline" THEN b.cmdline ELSE b.board

AddrField(b, k) ==
    CASE k = "ipl_address"    -> b.iplAddr
      [] k = "rpm_address"    -> b.rpmAddr
      [] k = "appsbl_address" -> b.appsblAddr
      [] k = "entrypoint"     -> b.entrypoint

OwnAddrKeys == {"ipl_address", "rpm_address", "appsbl_address", "entrypoint"}

\* a + b = c modulo 2^32, limb by limb.
SumsTo(a, b, c) ==
    /\ (a[2] + b[2]) % Limb = c[2]
    /\ (a[1] + b[1] + (IF a[2] + b[2] >= Limb THEN 1 ELSE 0)) % Limb = c[1]

\* C1: unpacking an image and packing the files written, with the same
\* directory and prefix and no per-item override, hands the codec an image whose
\* every scalar field (the IPL, RPM and APPSBL addresses and the entrypoint
\* included) and every blob equals the one parsed.
C1_RoundTripIdentity ==
    (PackBuilt /\ Len(status) = 2 /\ status[1] = 0 /\ loads # <<>>) =>
        LET a == Last(loads).image
            b == Last(builds).image
        IN  /\ b.cmdline = a.cmdline
            /\ b.board = a.board
            /\ b.kernelAddr = a.kernelAddr
            /\ b.ramdiskAddr = a.ramdiskAddr
            /\ b.secondAddr = a.secondAddr
            /\ b.tagsAddr = a.tagsAddr
            /\ b.iplAddr = a.iplAddr
            /\ b.rpmAddr = a.rpmAddr
            /\ b.appsblAddr = a.appsblAddr
            /\ b.entrypoint = a.entrypoint
            /\ b.pageSize = a.pageSize
            /\ b.blob = a.blob

\* C2: for every image unpack parses, base = kernel address -
\* DefaultKernelOffset, the kernel offset is DefaultKernelOffset, and base plus
\* each offset is, modulo 2^32, the address parsed.
C2_AddressArithmetic ==
    (cmd = "unpack" /\ pc = "write") =>
        /\ num["kernel_offset"] = DefaultKernelOffset
        /\ SumsTo(num["base"], DefaultKernelOffset, bi.kernelAddr)
        /\ SumsTo(num["base"], num["kernel_offset"], bi.kernelAddr)
        /\ SumsTo(num["base"], num["ramdisk_offset"], bi.ramdiskAddr)
        /\ SumsTo(num["base"], num["second_offset"], bi.secondAddr)
        /\ SumsTo(num["base"], num["tags_offset"], bi.tagsAddr)
        /\ \A k \in {"base", "kernel_offset", "ramdisk_offset", "second_offset",
                     "tags_offset"} :
                num[k][1] \in 0..(Limb - 1) /\ num[k][2] \in 0..(Limb - 1)

\* unpack has derived a base above the kernel address and a ramdisk offset
\* that wraps around 2^32.
C2_Witness ==
    /\ cmd = "unpack"
    /\ pc = "write"
    /\ bi.kernelAddr = U32(0, 0)
    /\ bi.ramdiskAddr = U32(0, 32767)
    /\ num["base"] = U32(65535, 32768)
    /\ num["ramdisk_offset"] = U32(0, 65535)

\* The value of the literals the command lines use.
LiteralValue(a) == IF a = "1024" THEN U32(0, 1024) ELSE U32(0, 4779)

\* The value pack hands the codec for the numeric item k: a setter's argument,
\* or the field of the image it builds.
HandedNum(b, k) ==
    IF k \in DOMAIN b.numArgs THEN b.numArgs[k] ELSE AddrField(b.image, k)

\* C3: when pack is given both --value-X and --input-X for a scalar X, in
\* either order, the field handed to the codec is the literal, X's path is
\* never opened, and pack does not fail on X.
C3_ValueOverridesInput ==
    \A k \in ScalarSet :
        (cmd = "pack" /\ FirstProcess /\ Given("value-" \o k) /\ Given("input-" \o k)) =>
            /\ \A i \in 1..Len(opens) :
                    \/ opens[i].path = ""
                    \/ /\ opens[i].path # LastArg("input-" \o k)
                       /\ Resolved => opens[i].path # ExpectedPath(k)
            /\ ~PackFailedAt(k)
            /\ PackBuilt =>
                    IF k \in TextSet
                    THEN TextField(Last(builds).image, k) = LastArg("value-" \o k)
                    ELSE HandedNum(Last(builds), k) = LiteralValue(LastArg("value-" \o k))

\* An item file of the hex32 kind as unpack writes it: 8 hexadecimal digits
\* and at most a newline.
StrictHex8(data) ==
    /\ Len(data) \in {8, 9}
    /\ \A i \in 1..8 : DigitVal(Ch(data, i)) < 16
    /\ Len(data) = 9 => Ch(data, 9) = "\n"

\* C4: pack never goes past a hex32 item whose file is readable and holds
\* anything but exactly 8 hexadecimal digits.
C4_StrictHexParsing ==
    \A k \in HexSet :
        (PackPassed(k) /\ k \notin values /\ FileState(path[k]) = "ok") =>
            StrictHex8(fs[path[k]].data)

\* C5: when pack calls the build, every scalar it resolved is set on the boot
\* image: the cmdline, the board, the addresses, the page size, and the IPL,
\* RPM and APPSBL addresses and the entrypoint.
C5_EveryFieldSet ==
    PackBuilt =>
        LET b == Last(builds).image
        IN  /\ b.cmdline = text["cmdline"]
            /\ b.board = text["board"]
            /\ SumsTo(num["base"], num["kernel_offset"], b.kernelAddr)
            /\ SumsTo(num["base"], num["ramdisk_offset"], b.ramdiskAddr)
            /\ SumsTo(num["base"], num["second_offset"], b.secondAddr)
            /\ SumsTo(num["base"], num["tags_offset"], b.tagsAddr)
            /\ b.pageSize = num["page_size"]
            /\ \A k \in OwnAddrKeys : AddrField(b, k) = num[k]

\* The default of the scalar item k is what pack holds for it.
HoldsDefault(k) ==
    IF k \in TextSet THEN text[k] = DefaultText(k) ELSE num[k] = DefaultNum(k)

NoErrorReported == \A i \in 1..Len(stdio) : stdio[i].fd # "stderr"

\* C6: a scalar item without --value-X whose file does not exist takes the
\* codec's default, and pack goes on to the next item without reporting an
\* error.
C6_MissingScalarDefault ==
    \A k \in ScalarSet :
        (cmd = "pack" /\ FirstProcess /\ item >= Idx(k) /\ k \notin values
            /\ FileState(path[k]) = "absent") =>
            /\ ~PackFailedAt(k)
            /\ PackPassed(k) => HoldsDefault(k)
            /\ (item = Idx(k) + 1 /\ pc # "shell") => NoErrorReported

\* pack has built an image although the file of the base does not exist, with
\* DefaultBase handed to setAddresses.
C6_Witness ==
    /\ PackBuilt
    /\ status = <<0>>
    /\ "base" \notin values
    /\ FileState(path["base"]) = "absent"
    /\ Last(builds).numArgs["base"] = DefaultBase
    /\ NoErrorReported

\* C7: pack never goes past a scalar item without --value-X whose file exists
\* but cannot be opened.
C7_UnreadableScalarAborts ==
    \A k \in ScalarSet :
        ~(PackPassed(k) /\ k \notin values /\ FileState(path[k]) = "noaccess")

\* C8: for every target type a kernel or ramdisk file that does not exist
\* makes pack fail without calling the build, and any other blob file that
\* does not exist gives an empty blob and pack goes on.
C8_MissingBlobs ==
    \A k \in BlobSet :
        (cmd = "pack" /\ FirstProcess /\ item >= Idx(k) /\ FileState(path[k]) = "absent") =>
            IF k \in {"kernel", "ramdisk"}
            THEN /\ item = Idx(k)
                 /\ builds = <<>>
                 /\ pc \in {"read", "shell"}
                 /\ pc = "shell" => status = <<1>>
            ELSE /\ ~PackFailedAt(k)
                 /\ PackPassed(k) => blob[k] = ""

\* pack for a Loki image has failed at the kernel, whose file does not exist,
\* with every scalar file read.
C8_Witness ==
    /\ PackFailedAt("kernel")
    /\ opt.type = "loki"
    /\ FileState(path["kernel"]) = "absent"
    /\ FileState(path["ramdisk"]) = "ok"
    /\ status = <<1>>
    /\ builds = <<>>

\* C9: pack with target type loki and no non-empty --input-aboot path fails,
\* and when it does no item file has been opened, no file written and the
\* build not called.
C9_LokiPrecondition ==
    (cmd = "pack" /\ FirstProcess /\ pc # "getopt" /\ opt.type = "loki"
        /\ LastArg("input-aboot") = "") =>
        /\ pc \in {"resolve", "shell"}
        /\ pc = "shell" => status = <<1>>
        /\ opens = <<>>
        /\ builds = <<>>
        /\ mkdirs = <<>>
        /\ item = 0

\* pack -t loki without an aboot image has returned false with its message,
\* the positional argument parsed.
C9_Witness ==
    /\ cmd = "pack"
    /\ pc = "shell"
    /\ status = <<1>>
    /\ opt.type = "loki"
    /\ ~Given("input-aboot")
    /\ words = <<"boot.img">>
    /\ Last(stdio).msg = "An aboot image must be specified to create a loki image"
    /\ opens = <<>>

OpenIndex(k) ==
    IF cmd = "pack"
    THEN Cardinality({j \in 1..Idx(k) : PackKeys[j] \notin values})
    ELSE CHOOSE i \in 1..Len(UnpackKeys) : UnpackKeys[i] = k

\* C11: in both pipelines an item with a non-empty --output-X / --input-X path
\* and no --value-X is written to or read from exactly that path, and its
\* default path is never opened.
C11_PathOverride ==
    \A k \in Range(IF cmd = "pack" THEN PackKeys ELSE UnpackKeys) :
        (FirstProcess /\ Resolved /\ LastArg(PathOption(k)) # ""
            /\ ~Given("value-" \o k)) =>
            /\ path[k] = LastArg(PathOption(k))
            /\ \A i \in 1..Len(opens) : opens[i].path # ExpectedPath(k)
            /\ Len(opens) >= OpenIndex(k) =>
                    /\ opens[OpenIndex(k)].path = LastArg(PathOption(k))
                    /\ opens[OpenIndex(k)].mode = (IF cmd = "pack" THEN "rb" ELSE "wb")

\* unpack --output-kernel=alt has finished with the kernel in alt and no file
\* at the kernel's default path.
C11_Witness ==
    /\ cmd = "unpack"
    /\ status = <<0>>
    /\ LastArg("output-kernel") = "alt"
    /\ "alt" \in DOMAIN fs
    /\ fs["alt"].data = "KERNEL"
    /\ "./boot.img-kernel" \notin DOMAIN fs

\* The option words of the command line, in order.
OptionWords == SelectSeq(argv, IsOptionWord)

NoSideEffect == opens = <<>> /\ mkdirs = <<>> /\ loads = <<>> /\ builds = <<>>

UsageOf(c) == IF c = "pack" THEN "PackUsage" ELSE "UnpackUsage"

\* C12: unpack or pack given -h or --help prints the subcommand's usage on
\* standard output and returns success, with no directory created, no image
\* parsed, no item file opened and no build called.
C12_HelpSucceeds ==
    (FirstProcess /\ pc = "shell" /\ cmd \in {"pack", "unpack"}
        /\ OptionWords # <<>> /\ OptionWords[1] \in {"-h", "--help"}) =>
        /\ status = <<0>>
        /\ Last(stdio) = [fd |-> "stdout", msg |-> UsageOf(cmd)]
        /\ NoSideEffect

\* C13: --noprefix stands for -n in both subcommands: it takes no argument,
\* the image file after it stays the positional argument, and the default
\* paths become directory/item.
C13_NoprefixIsN ==
    (FirstProcess /\ cmd \in {"pack", "unpack"} /\ pc # "getopt"
        /\ OptionWords = <<"--noprefix">> /\ Len(argv) = 3) =>
        /\ words = SelectSeq(Tail(argv), LAMBDA w : ~IsOptionWord(w))
        /\ opt.no_prefix
        /\ pc = "shell" => Last(stdio).msg # UsageOf(cmd)
        /\ Resolved =>
                \A k \in Range(UnpackKeys) : path[k] = PathJoin(".", k)

\* s[i..] holds digits of the base only.
RECURSIVE AllDigits(_, _, _)
AllDigits(s, i, base) ==
    i > Len(s) \/ (DigitVal(Ch(s, i)) < base /\ AllDigits(s, i + 1, base))

\* s without its leading zeros.
RECURSIVE Significant(_)
Significant(s) ==
    IF Len(s) > 1 /\ Ch(s, 1) = "0" THEN Significant(SubSeq(s, 2, Len(s))) ELSE s

\* a <= b for two strings of decimal digits of the same length.
RECURSIVE DecLeq(_, _)
DecLeq(a, b) ==
    \/ a = ""
    \/ DigitVal(Ch(a, 1)) < DigitVal(Ch(b, 1))
    \/ /\ Ch(a, 1) = Ch(b, 1)
       /\ DecLeq(SubSeq(a, 2, Len(a)), SubSeq(b, 2, Len(b)))

\* The literal a is a number of the base, with the 0x of a hexadecimal number
\* allowed, and at most 2^32 - 1.
WellFormed32(a, base) ==
    LET hasPfx == base = 16 /\ Len(a) > 2 /\ SubSeq(a, 1, 2) \in {"0x", "0X"}
        digits == IF hasPfx THEN SubSeq(a, 3, Len(a)) ELSE a
        sig    == Significant(digits)
    IN  /\ digits # ""
        /\ AllDigits(digits, 1, base)
        /\ IF base = 16 THEN Len(sig) <= 8
           ELSE Len(sig) < 10 \/ (Len(sig) = 10 /\ DecLeq(sig, "4294967295"))

\* C14: a --value-X literal for a numeric item that is not a well-formed
\* number of the item's base, or that exceeds 2^32 - 1, makes pack fail with
\* an error naming the item; it is never truncated or wrapped.
C14_NumericLiteral ==
    \A k \in NumSet : \A i \in 1..Len(given) :
        (cmd = "pack" /\ FirstProcess /\ given[i].opt = "value-" \o k
            /\ ~WellFormed32(given[i].optarg, NumBase(k))) =>
            /\ i = Len(given)
            /\ pc = "shell"
            /\ status = <<1>>
            /\ Last(stdio) = [fd |-> "stderr",
                              msg |-> "Invalid " \o k \o ": " \o given[i].optarg]
            /\ NoSideEffect

\* A usage error, as far as getopt_long has delivered the command line: an
\* unknown option, an invalid --type, an invalid numeric literal, and, once
\* the options are exhausted, a number of positional arguments other than
\* one or a Loki target without an aboot path.
UsageError ==
    \/ \E i \in 1..Len(given) :
            \/ given[i].opt = "?"
            \/ given[i].opt = "t" /\ given[i].optarg \notin Types
            \/ \E k \in NumSet :
                    /\ given[i].opt = "value-" \o k
                    /\ ~WellFormed32(given[i].optarg, NumBase(k))
    \/ /\ pc # "getopt"
       /\ \/ Len(words) # 1
          \/ cmd = "pack" /\ LastArg("t") = "loki" /\ LastArg("input-aboot") = ""

\* C15: every usage error makes the subcommand fail before any directory is
\* created, any item file opened or written, any image parsed and any build
\* called.
C15_UsageErrorsFailEarly ==
    (FirstProcess /\ cmd \in {"pack", "unpack"} /\ UsageError) =>
        /\ pc \in {"resolve", "shell"}
        /\ pc = "shell" => status = <<1>>
        /\ NoSideEffect

\* The subcommand of the process that ended last did all of its work: unpack
\* created the directory, parsed the image and wrote its 21 files; pack had
\* the codec build the image.
Completed ==
    CASE cmd = "pack" -> PackBuilt /\ Last(builds).ok
      [] cmd = "unpack" ->
            /\ mkdirs # <<>> /\ Last(mkdirs).ok
            /\ loads # <<>> /\ Last(loads).ok
            /\ Len(opens) = Len(UnpackKeys)
            /\ \A i \in 1..Len(opens) : opens[i].ok /\ opens[i].mode = "wb"
      [] OTHER -> FALSE

C17_EveryItemWritten ==
    (cmd = "unpack" /\ pc = "shell" /\ status = <<0>>) =>
        \A k \in Range(UnpackKeys) :
            /\ path[k] \in DOMAIN fs
            /\ fs[path[k]].mode = "ok"
            /\ k \in BlobSet => fs[path[k]].data = Last(loads).image.blob[k]

\* unpack of a Sony ELF image whose rpm blob is empty has succeeded and left
\* an empty rpm file.
C17_Witness ==
    /\ cmd = "unpack"
    /\ pc = "shell"
    /\ status = <<0>>
    /\ Last(loads).image.type = "sonyelf"
    /\ Last(loads).image.blob["rpm"] = ""
    /\ path["rpm"] \in DOMAIN fs
    /\ fs[path["rpm"]].data = ""

\* C18: when the codec does not parse the image, unpack returns failure, and
\* from the start of the run no item file is opened, created or modified: the
\* parse comes before the first write.
C18_ParseFailureWritesNothing ==
    /\ [](FirstProcess /\ cmd = "unpack" /\ loads # <<>> /\ ~Last(loads).ok
            => pc = "shell" /\ status = <<1>>)
    /\ [][(FirstProcess' /\ cmd' = "unpack" /\ (loads' = <<>> \/ ~Last(loads').ok))
            => (fs' = fs /\ opens' = <<>>)]_vars

\* unpack of a file that is no image has failed in a directory that held item
\* files, and they are as they were.
C18_Witness ==
    /\ cmd = "unpack" /\ pc = "shell" /\ status = <<1>>
    /\ loads # <<>> /\ ~Last(loads).ok
    /\ fs = RefDir
    /\ opens = <<>>

\* C19: unpack writes its items in schema order and stops at the first write
\* that fails: the items before the failing one have been written and remain,
\* no item after it is written, and the run returns failure.
C19_WritesInOrderUntilFailure ==
    (FirstProcess /\ cmd = "unpack") =>
        /\ Len(opens) <= Len(UnpackKeys)
        /\ \A i \in 1..Len(opens) :
              /\ opens[i].path = path[UnpackKeys[i]]
              /\ opens[i].mode = "wb"
              /\ i < Len(opens) => opens[i].ok
              /\ opens[i].ok =>
                    /\ opens[i].path \in DOMAIN fs
                    /\ fs[opens[i].path].data =
                          ItemData(Last(loads).image, UnpackOffsets(Last(loads).image),
                                   UnpackKeys[i])
        /\ (opens # <<>> /\ ~Last(opens).ok) =>
              /\ pc = "shell"
              /\ status = <<1>>
              /\ \A j \in (Len(opens) + 1)..Len(UnpackKeys) :
                    path[UnpackKeys[j]] \notin DOMAIN fs

\* The write of the kernel has failed: the page size, the item before it, is
\* on disk and the ramdisk, the item after it, is not.
C19_Witness ==
    /\ cmd = "unpack" /\ pc = "shell" /\ status = <<1>>
    /\ opens # <<>>
    /\ Last(opens).path = "./boot.img-kernel"
    /\ ~Last(opens).ok
    /\ "./boot.img-page_size" \in DOMAIN fs
    /\ "./boot.img-ramdisk" \notin DOMAIN fs

\* The items pack reads from a file, in schema order: those with no --value-X.
ReadKeys == SelectSeq(PackKeys, LAMBDA k : ~Given("value-" \o k))

\* The read or the parse of item k fails: its file is there but cannot be
\* opened or read, a kernel or ramdisk file is not there, or the scan of a
\* numeric file converts nothing.
ReadFails(k) ==
    LET st == FileState(path[k])
    IN  \/ st \in {"noaccess", "ioerr"}
        \/ k \in {"kernel", "ramdisk"} /\ st = "absent"
        \/ /\ k \in NumSet
           /\ st = "ok"
           /\ ScanfUInt(fs[path[k]].data, IF k \in HexSet THEN 8 ELSE 0, NumBase(k)).count # 1

\* C20: pack opens the item files in schema order, each at most once; the
\* first item whose read or parse fails ends the run with failure, so that no
\* later item file is opened; the build is called at most once, and only
\* after every item has been resolved without failure.
C20_FailFast ==
    (FirstProcess /\ cmd = "pack") =>
        /\ Len(opens) <= Len(ReadKeys)
        /\ \A i \in 1..Len(opens) :
              /\ opens[i].path = path[ReadKeys[i]]
              /\ opens[i].mode = "rb"
              /\ i < Len(opens) => ~ReadFails(ReadKeys[i])
        /\ (opens # <<>> /\ ReadFails(ReadKeys[Len(opens)])) =>
              /\ pc = "shell"
              /\ status = <<1>>
              /\ builds = <<>>
        /\ Len(builds) <= 1
        /\ builds # <<>> =>
              /\ Len(opens) = Len(ReadKeys)
              /\ \A k \in Range(ReadKeys) : ~ReadFails(k)

\* The three terminal resolution states of the scalar item k of pack: its
\* local holds the literal of --value-X; no --value-X, the file is readable
\* and the local holds what the file parses to; no --value-X, the file does
\* not exist and the local holds the codec's default.
IsLiteral(k) ==
    /\ Given("value-" \o k)
    /\ IF k \in TextSet THEN text[k] = LastArg("value-" \o k)
       ELSE num[k] = StrToUint32(LastArg("value-" \o k), NumBase(k), ulbits).value

IsParsedFromFile(k) ==
    /\ ~Given("value-" \o k)
    /\ FileState(path[k]) = "ok"
    /\ IF k \in TextSet THEN text[k] = FgetsLine(fs[path[k]].data, TextSize(k))
       ELSE num[k] = ScanfUInt(fs[path[k]].data, IF k \in HexSet THEN 8 ELSE 0,
                               NumBase(k)).value

IsCodecDefault(k) ==
    /\ ~Given("value-" \o k)
    /\ FileState(path[k]) = "absent"
    /\ HoldsDefault(k)

\* C21: when pack reaches field assembly each of the 12 scalar items is in
\* exactly one of the terminal states Literal, ParsedFromFile and
\* CodecDefault, and from the moment pack has gone past an item its value
\* does not change until the build.
C21_TerminalStates ==
    /\ [](\A k \in ScalarSet :
            (cmd = "pack" /\ FirstProcess /\ item = Len(PackKeys) + 1) =>
                Cardinality({s \in {"Literal", "ParsedFromFile", "CodecDefault"} :
                                CASE s = "Literal"        -> IsLiteral(k)
                                  [] s = "ParsedFromFile" -> IsParsedFromFile(k)
                                  [] s = "CodecDefault"   -> IsCodecDefault(k)}) = 1)
    /\ [][\A k \in ScalarSet :
            (cmd = "pack" /\ pc \in {"read", "build"} /\ item > Idx(k)) =>
                IF k \in TextSet THEN text'[k] = text[k] ELSE num'[k] = num[k]]_vars

\* C22: pack with no option at all, in a directory where none of the item
\* files exists, opens the file of each of the 12 scalar items once, gives
\* each the codec's default, then fails on the kernel, without calling the
\* build and without creating or changing a file.
C22_DefaultSubstitution ==
    /\ []((cmd = "pack" /\ FirstProcess /\ pc = "shell" /\ Len(argv) = 2
                /\ OptionWords = <<>>
                /\ \A k \in KeySet : ExpectedPath(k) \notin DOMAIN fs) =>
            /\ status = <<1>>
            /\ builds = <<>>
            /\ mkdirs = <<>>
            /\ Len(opens) = Len(ScalarKeys) + 1
            /\ \A i \in 1..Len(ScalarKeys) :
                  /\ opens[i] = [path |-> ExpectedPath(ScalarKeys[i]), mode |-> "rb",
                                  ok |-> FALSE]
                  /\ HoldsDefault(ScalarKeys[i])
            /\ Last(opens) = [path |-> ExpectedPath("kernel"), mode |-> "rb", ok |-> FALSE]
            /\ Last(stdio) = [fd |-> "stderr", msg |-> ExpectedPath("kernel") \o ": ENOENT"])
    /\ [][(cmd' = "pack" /\ FirstProcess' /\ Len(argv') = 2) => fs' = fs]_vars

\* pack boot.img has failed in an empty directory after 13 opens.
C22_Witness ==
    /\ cmd = "pack" /\ pc = "shell" /\ status = <<1>>
    /\ argv = <<"pack", "boot.img">>
    /\ fs = NoFiles
    /\ Len(opens) = 13
    /\ text["cmdline"] = DefaultCmdline
    /\ num["page_size"] = DefaultPageSize

\* The process that runs, or ran last, is the second one of the script, and
\* the first one exited with 0.
SecondProcess ==
    /\ Len(status) + (IF pc = "shell" THEN 0 ELSE 1) = 2
    /\ status[1] = 0

\* C23: when pack reads the command line or the board name from the file
\* unpack wrote for it, and the original string has no newline, pack gets the
\* original string if it is shorter than the size of the field, the empty
\* string included, and its first size - 1 characters otherwise.
C23_TextRoundTrip ==
    \A k \in TextSet :
        LET s == TextField(Last(loads).image, k)
            n == TextSize(k)
        IN  (SecondProcess /\ PackPassed(k) /\ loads # <<>> /\ ~Given("value-" \o k)
                /\ opens[Idx(k)] = [path |-> path[k], mode |-> "wb", ok |-> TRUE]
                /\ \A i \in 1..Len(s) : Ch(s, i) # "\n") =>
                text[k] = IF Len(s) < n THEN s ELSE SubSeq(s, 1, n - 1)

\* pack has read back a board name of 17 characters cut to 15, and a command
\* line that differs from the original.
C23_Witness ==
    /\ SecondProcess /\ PackPassed("board") /\ loads # <<>>
    /\ Len(Last(loads).image.board) = 17
    /\ Len(text["board"]) = 15
    /\ Last(loads).image.cmdline # text["cmdline"]
    /\ opens[2] = [path |-> path["board"], mode |-> "wb", ok |-> TRUE]

OptionalBlobs == BlobSet \ {"kernel", "ramdisk"}

\* C24: pack never goes past an optional blob whose file exists but cannot be
\* opened, fails on read or reads short, whatever the reads before it did:
\* it fails there, with a message that begins with the path of the blob.
C24_OptionalBlobReadFailureAborts ==
    \A k \in OptionalBlobs :
        (cmd = "pack" /\ FirstProcess
            /\ FileState(path[k]) \in {"noaccess", "ioerr", "short"}) =>
            /\ ~PackPassed(k)
            /\ PackFailedAt(k) =>
                  /\ status = <<1>>
                  /\ Last(stdio).fd = "stderr"
                  /\ StartsWith(Last(stdio).msg, path[k] \o ":")

\* C25: when -n and -p STR are both given to unpack or pack, in either order,
\* the default path of every item that has one is the directory joined with
\* the bare item name.
C25_NoPrefixDominates ==
    (Resolved /\ Given("n") /\ Given("p") /\ LastArg("p") # "") =>
        \A k \in Range(IF cmd = "pack" THEN PackKeys ELSE UnpackKeys) \ {"aboot"} :
            NoOverride(k) => path[k] = PathJoin(ExpectedDir, k)

\* unpack -n -p p boot.img has written the kernel to ./kernel.
C25_Witness ==
    /\ cmd = "unpack" /\ pc = "shell" /\ status = <<0>>
    /\ Len(given) = 2
    /\ given[1].opt = "n"
    /\ given[2] = [opt |-> "p", optarg |-> "p"]
    /\ "./kernel" \in DOMAIN fs
    /\ opens[13].path = "./kernel"

DirOption == IF cmd = "pack" THEN "i" ELSE "o"

GivenEmpty(o) == Given(o) /\ LastArg(o) = ""

\* C26: an override whose last value is the empty string acts as no override:
\* an item with an empty --output-X / --input-X gets its default path (none
\* for pack's aboot), an empty -p gives the prefix derived from the image's
\* base name, an empty -o / -i gives ".", and pack for Loki with an empty
\* --input-aboot fails as it does with none.
C26_EmptyOverride ==
    (\E i \in 1..Len(given) : given[i].optarg = "") =>
        /\ Resolved =>
              /\ \A k \in Range(IF cmd = "pack" THEN PackKeys ELSE UnpackKeys) \ {"aboot"} :
                    /\ (GivenEmpty(PathOption(k)) /\ ~Given("value-" \o k)) =>
                            path[k] = ExpectedPath(k)
                    /\ (GivenEmpty("p") /\ ~Given("n") /\ NoOverride(k)) =>
                            path[k] = PathJoin(ExpectedDir, BaseName(opt.file) \o "-" \o k)
                    /\ (GivenEmpty(DirOption) /\ NoOverride(k)) =>
                            path[k] = PathJoin(".", ExpectedPrefix \o k)
              /\ (cmd = "pack" /\ GivenEmpty("input-aboot")) => path["aboot"] = ""
        /\ (cmd = "pack" /\ FirstProcess /\ pc = "shell" /\ LastArg("t") = "loki"
                /\ GivenEmpty("input-aboot")) =>
              /\ status = <<1>>
              /\ NoSideEffect

\* unpack -p "" -o "" dir/boot.img has written the kernel to ./boot.img-kernel.
C26_Witness ==
    /\ cmd = "unpack" /\ pc = "shell" /\ status = <<0>>
    /\ GivenEmpty("p") /\ GivenEmpty("o")
    /\ opt.file = "dir/boot.img"
    /\ "./boot.img-kernel" \in DOMAIN fs

ValueLine(k) ==
    "- " \o k \o ": (value) " \o
        (IF k \in TextSet THEN text[k]
         ELSE IF k \in HexSet THEN Hex8(num[k]) ELSE Dec(num[k]))

PathLine(k, p) == "- " \o k \o ": (path) " \o p

Printed(line) == \E i \in 1..Len(stdio) : stdio[i] = [fd |-> "stdout", msg |-> line]

PrintedKind(k, kind) ==
    \E i \in 1..Len(stdio) :
        stdio[i].fd = "stdout" /\ StartsWith(stdio[i].msg, "- " \o k \o ": (" \o kind \o ") ")

\* C28: for every scalar item the "Input files:" listing of pack names the
\* source pack uses: the item is listed as a value exactly when it has a
\* value override, whose literal is then the value pack holds, and as a path
\* exactly when it has none, and that path is the one pack opens; a value
\* override implies an empty path.
C28_ListingAgrees ==
    \A k \in ScalarSet :
        (cmd = "pack" /\ FirstProcess /\ Resolved) =>
            IF Given("value-" \o k)
            THEN /\ path[k] = ""
                 /\ Printed(ValueLine(k))
                 /\ ~PrintedKind(k, "path")
                 /\ IsLiteral(k)
            ELSE /\ Printed(PathLine(k, path[k]))
                 /\ ~PrintedKind(k, "value")
                 /\ PackPassed(k) => opens[OpenIndex(k)].path = path[k]

\* C29: in pack an item file that is there and holds nothing gives the empty
\* string for cmdline and board, with no error, and a format error for every
\* hex32 item and for page_size; a scalar whose file opens never ends the
\* run with the codec's default in place of what the file holds.
C29_EmptyFile ==
    (cmd = "pack" /\ FirstProcess) =>
        \A i \in 1..Len(ScalarKeys) :
            LET k == ScalarKeys[i]
            IN  ((item > i \/ (item = i /\ pc = "shell"))
                    /\ k \notin values /\ FileState(path[k]) = "ok") =>
                    /\ (pc = "shell" /\ item > i /\ HoldsDefault(k)) => IsParsedFromFile(k)
                    /\ fs[path[k]].data = "" =>
                          IF k \in TextSet
                          THEN item > i /\ text[k] = ""
                          ELSE /\ item = i
                               /\ status = <<1>>
                               /\ Last(stdio) =
                                    [fd |-> "stderr",
                                     msg |-> path[k] \o ": Error: expected '"
                                             \o (IF k = "page_size" THEN "%u" ELSE "%08x")
                                             \o "' format"]

\* pack has failed on an empty file for the entry point.
C29_Witness ==
    /\ PackFailedAt("entrypoint") /\ FirstProcess
    /\ FileState(path["entrypoint"]) = "ok"
    /\ fs[path["entrypoint"]].data = ""
    /\ status = <<1>>

\* C30: pack opens item files for reading only, creates no directory and
\* changes no file but the image its build writes; unpack opens item paths for
\* writing only, reads no item file, calls no build and never writes to the
\* image it unpacks.
C30_Frame ==
    /\ [](FirstProcess =>
            /\ cmd = "pack" =>
                  /\ \A i \in 1..Len(opens) : opens[i].mode = "rb"
                  /\ mkdirs = <<>>
                  /\ loads = <<>>
                  /\ Len(builds) <= 1
            /\ cmd = "unpack" =>
                  /\ \A i \in 1..Len(opens) :
                        /\ opens[i].mode = "wb"
                        /\ loads # <<>>
                        /\ opens[i].path # Last(loads).file
                  /\ builds = <<>>)
    /\ [][(FirstProcess' /\ cmd' = "pack") =>
            /\ fs' = fs
            /\ images' # images =>
                  /\ Len(builds') = Len(builds) + 1
                  /\ \A p \in DOMAIN images : p # Last(builds').file =>
                        p \in DOMAIN images' /\ images'[p] = images[p]]_vars
    /\ [][(FirstProcess' /\ cmd' = "unpack") => images' = images]_vars

====
